---- MODULE Spec2Model ----
(***************************************************************************)
(* The kernels-backend geometry cache (KernelsGeometry) of MFEM: the       *)
(* process-wide static cache `geom`, its two Get overloads, and the        *)
(* by-node <-> by-vdim reordering of the mesh nodal grid function.         *)
(* The partial-assembly domain kernels: the tensor ranks of an operator,   *)
(* Equation and its evalD, QuadTensorFunc, PADomainIntegrator and          *)
(* PADomainKernel, their Mult and MultAdd, and the ownership of the        *)
(* Equation they are built from.                                           *)
(* The Jacobian store of a linear mesh (MeshJac), the SUNDIALS time        *)
(* integrators CVODESolver and ARKStepSolver, and the copy helpers         *)
(* memcpy::H2H, H2D, D2H and D2D.                                          *)
(*                                                                         *)
(* C arrays are 0-based; TLA+ sequences are 1-based.  Every index below is *)
(* the 0-based index of the source and is shifted by one at the access.    *)
(* Coordinates are integers: the code only copies, adds and multiplies     *)
(* them.  invJ is stored as the adjugate of J, i.e. as numerators over the *)
(* denominator detJ.                                                       *)
(***************************************************************************)
EXTENDS Integers, Sequences, FiniteSets, TLC

\* ---------------------------------------------------------------- bounds
MaxSeq == 1        \* the mesh sequence counter runs over 0..MaxSeq
MaxQuad == 2       \* integration rules have 1..MaxQuad points
MaxScale == 2      \* scale of the generated mesh coordinates: 1..MaxScale
MaxNdofs == 3      \* reorder buffers: 1..MaxNdofs nodes
MaxVdim == 2       \* reorder buffers: 1..MaxVdim components
MaxBase == 2       \* reorder buffers: first entry in 0..MaxBase
MaxStride == 1     \* reorder buffers: entry step in 0..MaxStride
MaxOps == 2        \* reorder calls applied in a row
MaxDim == 3        \* partial assembly: space dimension in 1..MaxDim
MaxNbQuads == 2    \* partial assembly: rules of 1..MaxNbQuads points
MaxNbElts == 2     \* partial assembly: spaces of 1..MaxNbElts elements
MaxJac == 2        \* partial assembly: first Jacobian entry in 1..MaxJac
MaxApply == 2      \* partial assembly: Mult and MultAdd calls in a row
MaxCoef == 2       \* kernel paths: constant coefficient in 1..MaxCoef
MaxEntry == 1      \* kernel paths: entries of x in 0..MaxEntry
MaxWorkers == 2    \* workers running the element loop body side by side

\* ------------------------------------------------------- 0-based helpers
At(s, i) == s[i + 1]

InRange(s, i) == i >= 0 /\ i < Len(s)

\* s with the 0-based entry i set to x; a store outside the buffer is dropped.
Put(s, i, x) == IF InRange(s, i) THEN [s EXCEPT ![i + 1] = x] ELSE s

\* a load outside the buffer yields whatever lies there: gv
Rd(s, i, gv) == IF InRange(s, i) THEN s[i + 1] ELSE gv

RECURSIVE Prod(_)
Prod(shape) == IF shape = <<>> THEN 1 ELSE Head(shape) * Prod(Tail(shape))

Zeros(n) == [i \in 1..n |-> 0]

\* ------------------------------------------------------------ reordering
\* ReorderByVDim, the loop nest of lines 163-167 with k = d*vdim + v:
\*   temp[k++] = data[d+v*ndofs]
RECURSIVE ByVDimLoop(_, _, _, _, _)
ByVDimLoop(temp, data, k, ndofs, vdim) ==
  IF k >= ndofs * vdim THEN temp
  ELSE LET d == k \div vdim
           v == k % vdim
       IN ByVDimLoop(Put(temp, k, At(data, d + v * ndofs)), data, k + 1, ndofs, vdim)

\* a plausible slip: the by-node stride taken as vdim instead of ndofs
RECURSIVE ByVDimLoopBadStride(_, _, _, _, _)
ByVDimLoopBadStride(temp, data, k, ndofs, vdim) ==
  IF k >= ndofs * vdim THEN temp
  ELSE LET d == k \div vdim
           v == k % vdim
       IN ByVDimLoopBadStride(Put(temp, k, At(data, (d + v * vdim) % (ndofs * vdim))),
                              data, k + 1, ndofs, vdim)

ReorderByVDimBad(data, ndofs, vdim) ==
  ByVDimLoopBadStride(Zeros(Len(data)), data, 0, ndofs, vdim)

\* temp is the scratch buffer of `size` doubles; data[i] = temp[i] copies it back.
ReorderByVDim(data, ndofs, vdim) == ByVDimLoop(Zeros(Len(data)), data, 0, ndofs, vdim)

\* ReorderByNodes, the loop nest of lines 187-191 with k = j*vdim + i:
\*   temp[j+i*ndofs] = data[k++]
RECURSIVE ByNodesLoop(_, _, _, _, _)
ByNodesLoop(temp, data, k, ndofs, vdim) ==
  IF k >= ndofs * vdim THEN temp
  ELSE LET j == k \div vdim
           i == k % vdim
       IN ByNodesLoop(Put(temp, j + i * ndofs, At(data, k)), data, k + 1, ndofs, vdim)

\* a plausible slip: the scatter omitted, the buffer left in by-vdim layout
ReorderByNodesBad(data, ndofs, vdim) == data

ReorderByNodes(data, ndofs, vdim) == ByNodesLoop(Zeros(Len(data)), data, 0, ndofs, vdim)

\* ------------------------------------------------------------------ mesh
\* The mesh is the external collaborator of the cache: first-order simplex
\* meshes of one or two elements in one or two dimensions.
\*   e2d    element-to-dof table, GetElementToDofTable().GetJ()
\*   ref    reference vertex coordinates in by-vdim layout (v + dims*g)
ShapeNames == {"seg2", "tri1", "tri2"}

ShapeOf(name) ==
  CASE name = "seg2" -> [dims |-> 1, elements |-> 2, numDofs |-> 2, ndofs |-> 3,
                         e2d |-> <<0, 1, 1, 2>>, ref |-> <<0, 1, 3>>]
    [] name = "tri1" -> [dims |-> 2, elements |-> 1, numDofs |-> 3, ndofs |-> 3,
                         e2d |-> <<0, 1, 2>>, ref |-> <<0, 0, 1, 0, 0, 2>>]
    [] name = "tri2" -> [dims |-> 2, elements |-> 2, numDofs |-> 3, ndofs |-> 4,
                         e2d |-> <<0, 1, 2, 1, 3, 2>>,
                         ref |-> <<0, 0, 1, 0, 0, 2, 2, 3>>]

\* the generated meshes are the reference meshes scaled by 1..MaxScale
Scales == 1..MaxScale

\* vertex coordinates in by-vdim layout: component v of vertex g at v + dims*g
Coords(name, scale) ==
  LET sh == ShapeOf(name)
  IN [p \in 1..(sh.ndofs * sh.dims) |-> sh.ref[p] * scale]

\* the same coordinates in by-node layout: component v of vertex g at g + v*ndofs
ByNodeLayout(x, ndofs, vdim) ==
  [p \in 1..(ndofs * vdim) |->
     LET g == (p - 1) % ndofs
         v == (p - 1) \div ndofs
     IN At(x, v + vdim * g)]

Orderings == {"byNODES", "byVDIM"}

\* The mesh object: GetSequence(), GetNodes() (hasNodes = non-null) and the
\* nodal grid function with its FiniteElementSpace (ordering, vdim, ndofs).
MakeMesh(name, scale, seq, hasNodes, ordering) ==
  LET sh == ShapeOf(name)
      x == Coords(name, scale)
  IN [sequence |-> seq, shape |-> name,
      dims |-> sh.dims, vdim |-> sh.dims, elements |-> sh.elements,
      numDofs |-> sh.numDofs, ndofs |-> sh.ndofs, e2d |-> sh.e2d,
      vertices |-> x,
      hasNodes |-> hasNodes,
      ordering |-> IF hasNodes THEN ordering ELSE "none",
      nodes |-> IF ~hasNodes THEN <<>>
                ELSE IF ordering = "byNODES" THEN ByNodeLayout(x, sh.ndofs, sh.dims)
                ELSE x]

\* Mesh::SetCurvature(1, false, -1, Ordering::byVDIM) on a mesh without nodes:
\* the vertices become a first-order nodal grid function ordered by vdim.
SetCurvature(m) ==
  [m EXCEPT !.hasNodes = TRUE, !.ordering = "byVDIM", !.nodes = m.vertices]

\* --------------------------------------------------------- kernels arrays
\* A kernels array: the extents given to allocate() and the flat buffer,
\* first index fastest.  A default-constructed array has no buffer.
EmptyArray == [shape |-> <<>>, data |-> <<>>]

\* array::allocate(d0, d1, ...)
Allocate(shape) == [shape |-> shape, data |-> Zeros(Prod(shape))]

\* array::operator=(const mfem::Array&): copies src.Size() entries into the buffer
AssignArray(arr, src) ==
  [arr EXCEPT !.data = [i \in 1..Len(arr.data) |->
                          IF i <= Len(src) THEN src[i] ELSE arr.data[i]]]

\* the static cache pointer: id = 0 is NULL, any other id names a heap object
NullGeom ==
  [id |-> 0, meshNodes |-> EmptyArray, eMap |-> EmptyArray,
   J |-> EmptyArray, invJ |-> EmptyArray, detJ |-> EmptyArray]

\* new KernelsGeometry(): a fresh object whose arrays are not yet allocated
NewGeometry(id) == [NullGeom EXCEPT !.id = id]

\* ----------------------------------------------------------- dof-quad map
\* maps->dofToQuadD for first-order simplices: the gradient of basis function
\* d in reference direction j at quadrature point q (constant over q).
DofToQuadD(j, d, q) == IF d = 0 THEN 0 - 1 ELSE IF j = d - 1 THEN 1 ELSE 0

\* ------------------------------------------------- geometry-factor kernel
\* J[i][j] at (q, e) = sum over d of coord[i, d, e] * gradBasis[j, d, q],
\* coord read from the cached meshNodes buffer at i + dims*(d + numDofs*e).
RECURSIVE JacSum(_, _, _, _, _, _, _, _)
JacSum(nodes, dims, numDofs, i, j, q, e, d) ==
  IF d >= numDofs THEN 0
  ELSE nodes[i + dims * (d + numDofs * e) + 1] * DofToQuadD(j, d, q)
       + JacSum(nodes, dims, numDofs, i, j, q, e, d + 1)

\* meshNodes as the kernel reads it: numDofs*dims*elements entries, those past
\* the end of the buffer being whatever lies there (gv)
KernelNodes(buf, dims, numDofs, elements, gv) ==
  [p \in 1..(dims * numDofs * elements) |-> Rd(buf, p - 1, gv)]

Jac(nodes, dims, numDofs, i, j, q, e) == JacSum(nodes, dims, numDofs, i, j, q, e, 0)

\* closed-form determinant for dims in {1, 2}
Det(nodes, dims, numDofs, q, e) ==
  IF dims = 1 THEN Jac(nodes, dims, numDofs, 0, 0, q, e)
  ELSE Jac(nodes, dims, numDofs, 0, 0, q, e) * Jac(nodes, dims, numDofs, 1, 1, q, e)
       - Jac(nodes, dims, numDofs, 0, 1, q, e) * Jac(nodes, dims, numDofs, 1, 0, q, e)

\* closed-form adjugate (inverse times determinant) for dims in {1, 2}
Adj(nodes, dims, numDofs, i, j, q, e) ==
  IF dims = 1 THEN 1
  ELSE IF i = j THEN Jac(nodes, dims, numDofs, 1 - i, 1 - j, q, e)
  ELSE 0 - Jac(nodes, dims, numDofs, i, j, q, e)

\* rIniGeom(dims, numDofs, numQuad, elements, dofToQuadD, meshNodes, J, invJ, detJ):
\* writes entry i + dims*(j + dims*(q + numQuad*e)) of J and invJ and entry
\* q + numQuad*e of detJ for every i, j, q, e of the call; a store past the end
\* of a buffer does not land in it, entries the call does not reach keep
\* their value.
rIniGeom(dims, numDofs, numQuad, elements, g, gv) ==
  LET nodes == KernelNodes(g.meshNodes.data, dims, numDofs, elements, gv)
      n4 == dims * dims * numQuad * elements
      n2 == numQuad * elements
      I4(f) == f % dims
      J4(f) == (f \div dims) % dims
      Q4(f) == (f \div (dims * dims)) % numQuad
      E4(f) == f \div (dims * dims * numQuad)
  IN [g EXCEPT
        !.J.data = [f1 \in 1..Len(g.J.data) |->
           IF f1 - 1 < n4
           THEN Jac(nodes, dims, numDofs, I4(f1 - 1), J4(f1 - 1), Q4(f1 - 1), E4(f1 - 1))
           ELSE g.J.data[f1]],
        !.invJ.data = [f1 \in 1..Len(g.invJ.data) |->
           IF f1 - 1 < n4
           THEN Adj(nodes, dims, numDofs, I4(f1 - 1), J4(f1 - 1), Q4(f1 - 1), E4(f1 - 1))
           ELSE g.invJ.data[f1]],
        !.detJ.data = [f1 \in 1..Len(g.detJ.data) |->
           IF f1 - 1 < n2
           THEN Det(nodes, dims, numDofs, (f1 - 1) % numQuad, (f1 - 1) \div numQuad)
           ELSE g.detJ.data[f1]]]

\* the kernel touches memory outside the buffers it is handed
rIniGeomOutOfBounds(dims, numDofs, numQuad, elements, g) ==
  \/ dims * numDofs * elements > Len(g.meshNodes.data)
  \/ dims * dims * numQuad * elements > Len(g.J.data)
  \/ dims * dims * numQuad * elements > Len(g.invJ.data)
  \/ numQuad * elements > Len(g.detJ.data)

\* rNodeCopyByVDim(elements, numDofs, ndofs, dims, eMap, Sx, meshNodes):
\*   gid = eMap[d + numDofs*e];  meshNodes[v + dims*lid] = Sx[gid + v*ndofs]
rNodeCopyByVDim(elements, numDofs, ndofs, dims, g, Sx, gv) ==
  [g EXCEPT
     !.meshNodes.data = [m1 \in 1..Len(g.meshNodes.data) |->
        IF m1 - 1 < dims * numDofs * elements
        THEN LET v == (m1 - 1) % dims
                 lid == (m1 - 1) \div dims
                 gid == Rd(g.eMap.data, lid, gv)
             IN Rd(Sx, gid + v * ndofs, gv)
        ELSE g.meshNodes.data[m1]]]

rNodeCopyOutOfBounds(elements, numDofs, ndofs, dims, g, Sx) ==
  \/ numDofs * elements > Len(g.eMap.data)
  \/ dims * numDofs * elements > Len(g.meshNodes.data)
  \/ \E lid \in 0..(numDofs * elements - 1), v \in 0..(dims - 1) :
        /\ InRange(g.eMap.data, lid)
        /\ ~InRange(Sx, At(g.eMap.data, lid) + v * ndofs)

\* ------------------------------------------------------------------ state
VARIABLES
  mesh,          \* the mesh behind fes.GetFESpace()->GetMesh()
  geom,          \* static KernelsGeometry *geom
  geomSequence,  \* the mesh sequence config::Get() recorded at its last test
  status,        \* "ok", or "segv" once the process has died on a bad access
  nextId,        \* names the next heap object
  heap,          \* the KernelsGeometry objects made by new and not deleted
  last,          \* what the most recent call did (observation only)
  rbuf,          \* reordering on its own: the buffer,
  rorig,         \*   its contents before the first reorder call,
  rndofs,        \*   its node count,
  rvdim,         \*   its component count,
  rtrail,        \*   and the reorder calls applied so far
  eqn,           \* partial assembly: the Equation object behind Equation* eq,
  D,             \*   the coefficient tensor,
  kern,          \*   the kernel objects built from eq,
  xvec,          \*   the input vector of Mult and MultAdd,
  yvec,          \*   their output vector,
  views,         \*   the scratch views D_e, D_ek and locJ,
  wpc,           \*   where each worker stands in the evaluation loops,
  plast,         \*   and what the most recent operation did (observation only)
  solver,        \* time integration: the CVODESolver or ARKStepSolver object,
  sunobj,        \*   the objects SUNDIALS has handed out, live or freed,
  slast,         \*   and what the most recent solver call did (observation only)
  config,        \* copying: the flags behind config::Get() and of the build,
  membuf,        \*   the source and destination buffers,
  mlast          \*   and what the most recent copy did (observation only)

vars == <<mesh, geom, geomSequence, status, nextId, heap, last,
          rbuf, rorig, rndofs, rvdim, rtrail,
          eqn, D, kern, xvec, yvec, views, wpc, plast,
          solver, sunobj, slast, config, membuf, mlast>>

geomVars == <<mesh, geom, geomSequence, status, nextId, heap, last>>

reorderVars == <<rbuf, rorig, rndofs, rvdim, rtrail>>

paVars == <<eqn, D, kern, xvec, yvec, views, wpc, plast>>

odeVars == <<solver, sunobj, slast>>

copyVars == <<config, membuf, mlast>>

\* config::GeomNeedsUpdate(sequence): the mesh counter differs from the one
\* recorded at the last test
GeomNeedsUpdate(recorded, sequence) == recorded # sequence

\* a plausible slip: staleness never looked at once a cache exists
GeomToAllocateNullOnly(g, recorded, sequence) == g.id = 0

\* geom_to_allocate = (!geom) || config::Get().GeomNeedsUpdate(mesh.GetSequence())
GeomToAllocate(g, recorded, sequence) ==
  g.id = 0 \/ GeomNeedsUpdate(recorded, sequence)

\* || short-circuits: GeomNeedsUpdate runs, and records, only when geom is set
SequenceRecorded(g, recorded, sequence) ==
  IF g.id = 0 THEN recorded ELSE sequence

\* eMap[lid] = elementMap[lid] for lid = d + numDofs*e
GatherEMap(m) == [l1 \in 1..(m.numDofs * m.elements) |-> At(m.e2d, l1 - 1)]

\* a plausible slip: the by-node offset gid + v*ndofs used on by-vdim data
GatherNodesByNodeOffset(m, nodes) ==
  [m1 \in 1..(m.dims * m.numDofs * m.elements) |->
     LET v == (m1 - 1) % m.dims
         lid == (m1 - 1) \div m.dims
         gid == At(m.e2d, lid)
     IN At(nodes, gid + v * m.ndofs)]

\* meshNodes[v + dims*lid] = nodes[v + dims*gid] with gid = elementMap[lid]
GatherNodes(m, nodes) ==
  [m1 \in 1..(m.dims * m.numDofs * m.elements) |->
     LET v == (m1 - 1) % m.dims
         lid == (m1 - 1) \div m.dims
         gid == At(m.e2d, lid)
     IN At(nodes, v + m.dims * gid)]

\* the extents of the cached arrays are those of a call with these counts
CacheMatches(g, dims, numDofs, numQuad, elements) ==
  /\ g.meshNodes.shape = <<dims, numDofs, elements>>
  /\ g.eMap.shape = <<numDofs, elements>>
  /\ g.J.shape = <<dims, dims, numQuad, elements>>
  /\ g.invJ.shape = <<dims, dims, numQuad, elements>>
  /\ g.detJ.shape = <<numQuad, elements>>

\* KernelsGeometry::Get(fes, ir): the outcome of one call from cache pointer g,
\* recorded sequence `recorded` and mesh m, with an ir of numQuad points.
Get(g, recorded, m, numQuad, id, gv) ==
  LET geom_to_allocate == GeomToAllocate(g, recorded, m.sequence)
      g0 == IF geom_to_allocate THEN NewGeometry(id) ELSE g
      m1 == IF ~m.hasNodes THEN SetCurvature(m) ELSE m
      dims == m1.dims
      elements == m1.elements
      numDofs == m1.numDofs
      orderedByNODES == m1.ordering = "byNODES"
      nodesV == IF orderedByNODES THEN ReorderByVDim(m1.nodes, m1.ndofs, m1.vdim)
                ELSE m1.nodes
      meshNodes == GatherNodes(m1, nodesV)
      eMap == GatherEMap(m1)
      g1 == IF geom_to_allocate
            THEN [g0 EXCEPT !.meshNodes = Allocate(<<dims, numDofs, elements>>),
                            !.eMap = Allocate(<<numDofs, elements>>)]
            ELSE g0
      g2 == [g1 EXCEPT !.meshNodes = AssignArray(@, meshNodes),
                       !.eMap = AssignArray(@, eMap)]
      nodesBack == IF orderedByNODES THEN ReorderByNodes(nodesV, m1.ndofs, m1.vdim)
                   ELSE nodesV
      g3 == IF geom_to_allocate
            THEN [g2 EXCEPT !.J = Allocate(<<dims, dims, numQuad, elements>>),
                            !.invJ = Allocate(<<dims, dims, numQuad, elements>>),
                            !.detJ = Allocate(<<numQuad, elements>>)]
            ELSE g2
  IN [geom |-> rIniGeom(dims, numDofs, numQuad, elements, g3, gv),
      mesh |-> [m1 EXCEPT !.nodes = nodesBack],
      recorded |-> SequenceRecorded(g, recorded, m.sequence),
      alloc |-> geom_to_allocate,
      matches |-> CacheMatches(g3, dims, numDofs, numQuad, elements),
      oob |-> \/ Len(meshNodes) > Len(g1.meshNodes.data)
              \/ Len(eMap) > Len(g1.eMap.data)
              \/ rIniGeomOutOfBounds(dims, numDofs, numQuad, elements, g3)]

\* KernelsGeometry::Get(fes, ir, Sx) past its two pointer dereferences: the
\* mesh has nodes and geom is set.  Nothing is tested, nothing is allocated.
GetSx(g, m, numQuad, Sx, gv) ==
  LET g1 == rNodeCopyByVDim(m.elements, m.numDofs, m.ndofs, m.dims, g, Sx, gv)
  IN [geom |-> rIniGeom(m.dims, m.numDofs, numQuad, m.elements, g1, gv),
      matches |-> CacheMatches(g, m.dims, m.numDofs, numQuad, m.elements),
      oob |-> \/ rNodeCopyOutOfBounds(m.elements, m.numDofs, m.ndofs, m.dims, g, Sx)
              \/ rIniGeomOutOfBounds(m.dims, m.numDofs, numQuad, m.elements, g1)]

\* ---------------------------------------------------------------- actions
\* what a load outside every buffer may yield
Garbage == {0, 1}

\* only a call that leaves its buffers can load any of it
GarbageRead(oob) == IF oob THEN Garbage ELSE {0}

\* a call that touched memory outside its buffers may die or carry on
Outcomes(oob) == IF oob THEN {"ok", "segv"} ELSE {"ok"}

NoCall ==
  [op |-> "none", numQuad |-> 0, alloc |-> FALSE, kernelCalls |-> 0,
   oob |-> FALSE, nullGeom |-> FALSE, nullNodes |-> FALSE, matches |-> TRUE,
   hadNodes |-> TRUE, entryOrdering |-> "none", entryNodes |-> <<>>,
   entrySequence |-> 0, repeat |-> FALSE, sameObject |-> FALSE,
   sameContents |-> FALSE, getSequence |-> 0 - 1,
   prevGetSequence |-> 0 - 1, frees |-> 0]

\* the contents of the five cached arrays
Contents(g) == <<g.meshNodes, g.eMap, g.J, g.invJ, g.detJ>>

\* the fields every call records on entry, and how its result g compares with
\* the cache it found; repeat: the call right before was a Get(fes, ir) with
\* the same rule
Entry(op, numQuad, g) ==
  [NoCall EXCEPT !.op = op, !.numQuad = numQuad,
                 !.hadNodes = mesh.hasNodes,
                 !.entryOrdering = mesh.ordering,
                 !.entryNodes = mesh.nodes,
                 !.entrySequence = mesh.sequence,
                 !.repeat = (last.op = "Get" /\ last.numQuad = numQuad),
                 !.sameObject = (g.id = geom.id),
                 !.sameContents = (Contents(g) = Contents(geom)),
                 !.getSequence = last.getSequence,
                 !.prevGetSequence = last.getSequence]

GeomIdle ==
  /\ mesh = MakeMesh("seg2", 1, 0, FALSE, "none")
  /\ geom = NullGeom
  /\ geomSequence = 0
  /\ status = "ok"
  /\ nextId = 1
  /\ heap = {}
  /\ last = NoCall

ReorderIdle ==
  /\ rbuf = <<>>
  /\ rorig = <<>>
  /\ rndofs = 0
  /\ rvdim = 0
  /\ rtrail = <<>>

\* no partial-assembly object exists
PAIdle ==
  /\ eqn = [kind |-> "none"]
  /\ D = EmptyArray
  /\ kern = <<>>
  /\ xvec = <<>>
  /\ yvec = <<>>
  /\ views = <<>>
  /\ wpc = <<>>
  /\ plast = [op |-> "none"]

\* no solver has been constructed
ODEIdle ==
  /\ solver = [class |-> "none"]
  /\ sunobj = <<>>
  /\ slast = [op |-> "none"]

\* no copy has been asked for
CopyIdle ==
  /\ config = [cuda |-> FALSE]
  /\ membuf = <<>>
  /\ mlast = [op |-> "none"]

\* static KernelsGeometry *geom=NULL, and a mesh at sequence 0
Init ==
  /\ \E name \in ShapeNames : \E scale \in Scales :
       \E hasNodes \in BOOLEAN : \E ordering \in Orderings :
         mesh = MakeMesh(name, scale, 0, hasNodes, ordering)
  /\ geom = NullGeom
  /\ geomSequence = 0
  /\ status = "ok"
  /\ nextId = 1
  /\ heap = {}
  /\ last = NoCall
  /\ ReorderIdle
  /\ PAIdle
  /\ ODEIdle
  /\ CopyIdle

\* the mesh is refined, coarsened or moved: its sequence counter advances
MeshChange ==
  /\ status = "ok"
  /\ mesh.sequence < MaxSeq
  /\ \E name \in ShapeNames : \E scale \in Scales :
       mesh' = MakeMesh(name, scale, mesh.sequence + 1, mesh.hasNodes, mesh.ordering)
  /\ last' = Entry("MeshChange", 0, geom)
  /\ UNCHANGED <<geom, geomSequence, status, nextId, heap>>
  /\ UNCHANGED <<reorderVars, odeVars, copyVars>>
  /\ UNCHANGED paVars

\* a caller runs KernelsGeometry::Get(fes, ir)
CallGet ==
  /\ status = "ok"
  /\ \E numQuad \in 1..MaxQuad :
       \E gv \in GarbageRead(Get(geom, geomSequence, mesh, numQuad, nextId, 0).oob) :
       \E r \in {Get(geom, geomSequence, mesh, numQuad, nextId, gv)} :
          /\ geom' = r.geom
          /\ mesh' = r.mesh
          /\ geomSequence' = r.recorded
          /\ nextId' = IF r.alloc THEN nextId + 1 ELSE nextId
          /\ heap' = IF r.alloc THEN heap \cup {nextId} ELSE heap
          /\ status' \in Outcomes(r.oob)
          /\ last' = [Entry("Get", numQuad, r.geom) EXCEPT
                        !.alloc = r.alloc, !.kernelCalls = 1, !.oob = r.oob,
                        !.matches = r.matches,
                        !.getSequence = mesh.sequence]
  /\ UNCHANGED <<reorderVars, odeVars, copyVars>>
  /\ UNCHANGED paVars

\* Get(fes, ir, Sx) on a mesh without nodes: nodes->FESpace() on a null pointer
CallGetSxNoNodes ==
  /\ status = "ok"
  /\ ~mesh.hasNodes
  /\ \E numQuad \in 1..MaxQuad :
       last' = [Entry("GetSx", numQuad, geom) EXCEPT !.nullNodes = TRUE]
  /\ status' = "segv"
  /\ UNCHANGED <<mesh, geom, geomSequence, nextId, heap>>
  /\ UNCHANGED <<reorderVars, odeVars, copyVars>>
  /\ UNCHANGED paVars

\* Get(fes, ir, Sx) before any cache exists: geom->eMap on a null pointer
CallGetSxNoGeom ==
  /\ status = "ok"
  /\ mesh.hasNodes
  /\ geom.id = 0
  /\ \E numQuad \in 1..MaxQuad :
       last' = [Entry("GetSx", numQuad, geom) EXCEPT !.nullGeom = TRUE]
  /\ status' = "segv"
  /\ UNCHANGED <<mesh, geom, geomSequence, nextId, heap>>
  /\ UNCHANGED <<reorderVars, odeVars, copyVars>>
  /\ UNCHANGED paVars

\* Get(fes, ir, Sx) with a cache: Sx holds the nodes of the current mesh
\* moved to another configuration, ordered by nodes
CallGetSx ==
  /\ status = "ok"
  /\ mesh.hasNodes
  /\ geom.id # 0
  /\ \E numQuad \in 1..MaxQuad : \E scale \in Scales :
       \E Sx \in {ByNodeLayout(Coords(mesh.shape, scale), mesh.ndofs, mesh.dims)} :
       \E gv \in GarbageRead(GetSx(geom, mesh, numQuad, Sx, 0).oob) :
       \E r \in {GetSx(geom, mesh, numQuad, Sx, gv)} :
          /\ geom' = r.geom
          /\ status' \in Outcomes(r.oob)
          /\ last' = [Entry("GetSx", numQuad, r.geom) EXCEPT
                        !.kernelCalls = 1, !.oob = r.oob, !.matches = r.matches]
  /\ UNCHANGED <<mesh, geomSequence, nextId, heap>>
  /\ UNCHANGED <<reorderVars, odeVars, copyVars>>
  /\ UNCHANGED paVars

\* ~KernelsGeometry() run on the object geom points at.  The body frees the
\* four buffers of the static geom (eMap is not among them) and ends in
\* delete[] geom: an array delete of an object made by new, from inside the
\* destructor of that very object.  The array delete runs the destructor
\* again once for each element it takes the array to have, a count it loads
\* from in front of the object: reentries of them.
Destructor(g, live, reentries) ==
  [frees |-> 1 + reentries,
   heap |-> live \ {g.id},
   outcomes |-> IF reentries > 0 THEN {"segv"} ELSE {"down", "segv"}]

\* the engine is torn down and deletes the cache it finds in geom
Teardown ==
  /\ status = "ok"
  /\ geom.id # 0
  /\ \E reentries \in Garbage :
       \E r \in {Destructor(geom, heap, reentries)} :
          /\ heap' = r.heap
          /\ status' \in r.outcomes
          /\ last' = [Entry("Teardown", 0, geom) EXCEPT !.frees = r.frees]
  /\ UNCHANGED <<mesh, geom, geomSequence, nextId>>
  /\ UNCHANGED <<reorderVars, odeVars, copyVars>>
  /\ UNCHANGED paVars

Next ==
  \/ MeshChange
  \/ CallGet
  \/ CallGetSxNoNodes
  \/ CallGetSxNoGeom
  \/ CallGetSx
  \/ Teardown

Spec == Init /\ [][Next]_vars

\* ------------------------------------------------- reordering on its own
\* a coordinate buffer of ndofs*vdim entries: base, base+stride, ...
InitReorder ==
  /\ GeomIdle
  /\ PAIdle
  /\ ODEIdle
  /\ CopyIdle
  /\ \E ndofs \in 1..MaxNdofs : \E vdim \in 1..MaxVdim :
       \E base \in 0..MaxBase : \E stride \in 0..MaxStride :
         /\ rndofs = ndofs
         /\ rvdim = vdim
         /\ rbuf = [i \in 1..(ndofs * vdim) |-> base + (i - 1) * stride]
         /\ rorig = [i \in 1..(ndofs * vdim) |-> base + (i - 1) * stride]
  /\ rtrail = <<>>

CallReorderByVDim ==
  /\ Len(rtrail) < MaxOps
  /\ rbuf' = ReorderByVDim(rbuf, rndofs, rvdim)
  /\ rtrail' = Append(rtrail, "ByVDim")
  /\ UNCHANGED <<rorig, rndofs, rvdim>>
  /\ UNCHANGED <<geomVars, paVars, odeVars, copyVars>>

CallReorderByNodes ==
  /\ Len(rtrail) < MaxOps
  /\ rbuf' = ReorderByNodes(rbuf, rndofs, rvdim)
  /\ rtrail' = Append(rtrail, "ByNodes")
  /\ UNCHANGED <<rorig, rndofs, rvdim>>
  /\ UNCHANGED <<geomVars, paVars, odeVars, copyVars>>

NextReorder == CallReorderByVDim \/ CallReorderByNodes

SpecReorder == InitReorder /\ [][NextReorder]_vars

\* ----------------------------------------------------------------- claims
Gets == {"Get", "GetSx"}

\* the last call was one that came back to its caller
Returned(op) == status = "ok" /\ last.op = op

\* component v of node g as the mesh's grid function holds it
NodeCoord(m, g, v) ==
  IF m.ordering = "byNODES" THEN At(m.nodes, g + v * m.ndofs)
  ELSE At(m.nodes, v + m.vdim * g)

\* the Jacobian of first-order simplex e: column j is the edge from its
\* vertex 0 to its vertex j+1
EdgeJac(m, i, j, e) ==
  NodeCoord(m, At(m.e2d, (j + 1) + m.numDofs * e), i)
  - NodeCoord(m, At(m.e2d, m.numDofs * e), i)

EdgeDet(m, e) ==
  IF m.dims = 1 THEN EdgeJac(m, 0, 0, e)
  ELSE EdgeJac(m, 0, 0, e) * EdgeJac(m, 1, 1, e)
       - EdgeJac(m, 0, 1, e) * EdgeJac(m, 1, 0, e)

\* entry (i, j) of J*invJ at (q, e), summed from column k on
RECURSIVE RowTimesColumn(_, _, _, _, _, _, _, _)
RowTimesColumn(g, dims, numQuad, i, j, q, e, k) ==
  IF k >= dims THEN 0
  ELSE At(g.J.data, i + dims * (k + dims * (q + numQuad * e)))
       * At(g.invJ.data, k + dims * (j + dims * (q + numQuad * e)))
       + RowTimesColumn(g, dims, numQuad, i, j, q, e, k + 1)

\* the cached factors are those of mesh m for a rule of numQuad points: J is
\* the edge matrix, detJ its determinant and J*invJ = detJ*I (invJ holds the
\* numerators over detJ)
FactorsOf(g, m, numQuad) ==
  /\ CacheMatches(g, m.dims, m.numDofs, numQuad, m.elements)
  /\ Len(g.J.data) = m.dims * m.dims * numQuad * m.elements
  /\ Len(g.detJ.data) = numQuad * m.elements
  /\ \A e \in 0..(m.elements - 1) : \A q \in 0..(numQuad - 1) :
       /\ At(g.detJ.data, q + numQuad * e) = EdgeDet(m, e)
       /\ \A i \in 0..(m.dims - 1) : \A j \in 0..(m.dims - 1) :
            /\ At(g.J.data, i + m.dims * (j + m.dims * (q + numQuad * e)))
                 = EdgeJac(m, i, j, e)
            /\ RowTimesColumn(g, m.dims, numQuad, i, j, q, e, 0)
                 = IF i = j THEN EdgeDet(m, e) ELSE 0

\* eMap and meshNodes are the gather of mesh m
GatherOf(g, m) ==
  /\ Len(g.eMap.data) = m.numDofs * m.elements
  /\ Len(g.meshNodes.data) = m.dims * m.numDofs * m.elements
  /\ \A e \in 0..(m.elements - 1) : \A d \in 0..(m.numDofs - 1) :
       /\ At(g.eMap.data, d + m.numDofs * e) = At(m.e2d, d + m.numDofs * e)
       /\ \A v \in 0..(m.dims - 1) :
            At(g.meshNodes.data, v + m.dims * (d + m.numDofs * e))
              = NodeCoord(m, At(m.e2d, d + m.numDofs * e), v)

\* C1: of two consecutive Get(fes, ir) calls with the same rule and no change
\* of the mesh sequence in between, the second returns the same cache object
\* with the same contents and does not invoke rIniGeom.
C1_SecondGetDoesNotRecompute ==
  (Returned("Get") /\ last.repeat)
    => (last.sameObject /\ last.sameContents /\ last.kernelCalls = 0)

\* C2: a Get(fes, ir) at a mesh sequence other than that of the Get(fes, ir)
\* before it allocates a new cache, runs the kernel, and returns the gather
\* and the factors of the mesh as it is now.
C2_StaleGetRecomputes ==
  (Returned("Get") /\ last.prevGetSequence >= 0
                   /\ last.prevGetSequence # last.entrySequence)
    => /\ last.alloc
       /\ ~last.sameObject
       /\ last.kernelCalls = 1
       /\ GatherOf(geom, mesh)
       /\ FactorsOf(geom, mesh, last.numQuad)

C2_Witness ==
  /\ Returned("Get")
  /\ last.prevGetSequence = 0
  /\ last.entrySequence = 1
  /\ mesh.shape = "tri2"
  /\ ~last.sameContents

\* C3: a Get(fes, ir) that finds the nodal grid function ordered by nodes
\* returns with that grid function's buffer as it was on entry, whether it
\* allocated the cache or not.
C3_NodesRestored ==
  (Returned("Get") /\ last.entryOrdering = "byNODES")
    => (mesh.nodes = last.entryNodes /\ mesh.ordering = "byNODES")

C3_Witness ==
  /\ Returned("Get")
  /\ last.entryOrdering = "byNODES"
  /\ ~last.alloc
  /\ mesh.shape = "tri2"
  /\ mesh.nodes # mesh.vertices
  /\ mesh.nodes = last.entryNodes

\* C4: ReorderByNodes undoes ReorderByVDim and ReorderByVDim undoes
\* ReorderByNodes; ReorderByVDim moves entry d+v*ndofs to d*vdim+v,
\* ReorderByNodes moves entry d*vdim+v to d+v*ndofs, and any run of them
\* keeps every value of the buffer as often as it was there.
C4_ReorderInvolution ==
  /\ Len(rbuf) = Len(rorig)
  /\ \A i \in 1..Len(rorig) :
       Cardinality({k \in 1..Len(rbuf) : rbuf[k] = rorig[i]})
         = Cardinality({k \in 1..Len(rorig) : rorig[k] = rorig[i]})
  /\ rtrail = <<"ByVDim", "ByNodes">> => rbuf = rorig
  /\ rtrail = <<"ByNodes", "ByVDim">> => rbuf = rorig
  /\ rtrail = <<"ByVDim">> =>
       \A d \in 0..(rndofs - 1) : \A v \in 0..(rvdim - 1) :
         At(rbuf, d * rvdim + v) = At(rorig, d + v * rndofs)
  /\ rtrail = <<"ByNodes">> =>
       \A d \in 0..(rndofs - 1) : \A v \in 0..(rvdim - 1) :
         At(rbuf, d + v * rndofs) = At(rorig, d * rvdim + v)

C4_Witness ==
  /\ rtrail = <<"ByVDim", "ByNodes">>
  /\ rndofs = 3
  /\ rvdim = 2
  /\ rorig = <<0, 1, 2, 3, 4, 5>>
  /\ rbuf = rorig

\* C5: after every Get call the extents of the five cached arrays are those
\* of that call's dims, numDofs, numQuad and elements.
C5_ShapesMatchEveryCall ==
  (status = "ok" /\ last.op \in Gets)
    => CacheMatches(geom, mesh.dims, mesh.numDofs, last.numQuad, mesh.elements)

\* C6: a Get call whose counts do not match the extents of the cached arrays
\* stops before the kernel runs on them.
C6_MismatchFailsFast ==
  (last.op \in Gets /\ ~last.matches) => last.kernelCalls = 0

\* C7: no Get call goes through the cache pointer while it is NULL.
C7_NoAccessThroughNullCache == ~last.nullGeom

\* C8: a Get(fes, ir, Sx) at a mesh sequence other than that of the last
\* Get(fes, ir) leaves a cache gathered through the element-to-dof table of
\* the mesh as it is now, in arrays of its extents, touching nothing outside.
C8_VectorGetNeverUsesStale ==
  (Returned("GetSx") /\ last.entrySequence # last.getSequence)
    => /\ ~last.oob
       /\ geom.eMap.data = GatherEMap(mesh)
       /\ geom.meshNodes.shape = <<mesh.dims, mesh.numDofs, mesh.elements>>

\* C9: a Get call, in either mode, on a mesh without nodes does not go through
\* the missing grid function and returns with the mesh holding first-order
\* nodes ordered by vdim.
C9_MissingNodesUpgraded ==
  (last.op \in Gets /\ ~last.hadNodes)
    => /\ ~last.nullNodes
       /\ status = "ok"
       /\ mesh.hasNodes
       /\ mesh.ordering = "byVDIM"

\* C10: after Get(fes, ir), eMap holds the element-to-dof table entry of every
\* (d, e), meshNodes holds at v + dims*(d + numDofs*e) component v of that
\* node, whichever way the grid function is ordered, and eMap has
\* numDofs*elements entries.
C10_GatherCorrect == Returned("Get") => GatherOf(geom, mesh)

C10_Witness ==
  /\ Returned("Get")
  /\ last.entryOrdering = "byNODES"
  /\ mesh.shape = "tri2"
  /\ At(geom.eMap.data, 4) = 3
  /\ At(geom.meshNodes.data, 9) = NodeCoord(mesh, 3, 1)
  /\ NodeCoord(mesh, 3, 1) > 0

\* C11: at most one cache instance is live at any time, the engine's teardown
\* leaves none behind, and it releases the buffers of the instance it deletes
\* exactly once.
C11_InstancesReleasedOnce ==
  /\ Cardinality(heap) <= 1
  /\ status = "down" => heap = {}
  /\ last.op = "Teardown" => last.frees = 1

\* the cache holds, for every (e, k) of a call with numQuad points, a J, an
\* invJ and a detJ that belong together: detJ is the determinant of the J
\* stored beside it and J*invJ = detJ*I
FactorsConsistent(g, dims, numQuad, elements) ==
  /\ Len(g.J.data) >= dims * dims * numQuad * elements
  /\ Len(g.invJ.data) >= dims * dims * numQuad * elements
  /\ Len(g.detJ.data) >= numQuad * elements
  /\ \A e \in 0..(elements - 1) : \A q \in 0..(numQuad - 1) :
       /\ At(g.detJ.data, q + numQuad * e)
            = IF dims = 1
              THEN At(g.J.data, q + numQuad * e)
              ELSE At(g.J.data, 0 + 2 * (0 + 2 * (q + numQuad * e)))
                     * At(g.J.data, 1 + 2 * (1 + 2 * (q + numQuad * e)))
                   - At(g.J.data, 0 + 2 * (1 + 2 * (q + numQuad * e)))
                     * At(g.J.data, 1 + 2 * (0 + 2 * (q + numQuad * e)))
       /\ \A i \in 0..(dims - 1) : \A j \in 0..(dims - 1) :
            RowTimesColumn(g, dims, numQuad, i, j, q, e, 0)
              = IF i = j THEN At(g.detJ.data, q + numQuad * e) ELSE 0

\* C12: after every Get call, in either mode, the cache holds for every
\* element e and point k of the call a detJ that is the determinant of the
\* stored J and an invJ that is its inverse.
C12_FactorsMutuallyConsistent ==
  (status = "ok" /\ last.op \in Gets)
    => FactorsConsistent(geom, mesh.dims, last.numQuad, mesh.elements)

\* ------------------------------------------- partial assembly: the types
\* Tensors are stored with the first index running fastest, as the view
\* &J(0, 0, k, e) of a dim x dim matrix requires.
\* the operator names of PAOp
PAOps == {"BtDB", "BtDG", "GtDB", "GtDG"}

QuadDimValNoGradient(op) == IF op = "BtDB" THEN 0 ELSE 1

\* QuadDimVal<OpName>::value: the primary template and its two specializations
QuadDimVal(op) == IF op = "BtDB" THEN 0 ELSE IF op = "GtDG" THEN 2 ELSE 1

QuadDim(op) == QuadDimVal(op)

EltDim(op) == QuadDim(op) + 1

TensorDim(op) == EltDim(op) + 1

\* Tensor::setSize(d0, d1, ...): an owning tensor of these extents whose
\* entries hold whatever the fresh buffer holds (gv)
SetSize(shape, gv) == [shape |-> shape, data |-> [i \in 1..Prod(shape) |-> gv]]

\* initFESpaceTensor(dim, nbQuads, nbElts, D), the overload taken by the rank
\* of D
initFESpaceTensor(rank, dim, nbQuads, nbElts, gv) ==
  IF rank = 2 THEN SetSize(<<nbQuads, nbElts>>, gv)
  ELSE IF rank = 3 THEN SetSize(<<dim, nbQuads, nbElts>>, gv)
  ELSE SetSize(<<dim, dim, nbQuads, nbElts>>, gv)

\* EvalJacobians(dim, &fes, ir_order, J1d): fills J(dim, dim, quads, nbElts);
\* here with a matrix per (k, e) whose determinant differs from point to point
EvalJacobians(dim, quads, nbElts, base) ==
  [f \in 1..(dim * dim * quads * nbElts) |->
     LET i == (f - 1) % dim
         j == ((f - 1) \div dim) % dim
         ke == (f - 1) \div (dim * dim)
     IN IF i = j THEN base + ke + i ELSE 1]

\* Equation<Op, Vector>(fes, ir_order): the space, the rule and the Jacobians
\* MeshJac<Vector, false, true> evaluates at construction; deletes counts the
\* times delete has been applied to the object
Equation(kind, op, dim, nbQuads, nbElts, base) ==
  [kind |-> kind, op |-> op, dim |-> dim, nbQuads |-> nbQuads,
   nbElts |-> nbElts, J |-> EvalJacobians(dim, nbQuads, nbElts, base),
   deletes |-> 0]

\* ------------------------------------------ sizing the coefficient tensor
InitDims ==
  /\ GeomIdle
  /\ ReorderIdle
  /\ ODEIdle
  /\ CopyIdle
  /\ \E op \in PAOps : \E dim \in 1..MaxDim :
       \E nbQuads \in 1..MaxNbQuads : \E nbElts \in 1..MaxNbElts :
         eqn = Equation("Equation", op, dim, nbQuads, nbElts, 1)
  /\ D = EmptyArray
  /\ kern = <<>>
  /\ xvec = <<>>
  /\ yvec = <<>>
  /\ views = <<>>
  /\ wpc = <<>>
  /\ plast = [op |-> "none"]

\* the first four statements of the PADomainKernel constructor
CallInitFESpaceTensor ==
  /\ plast.op = "none"
  /\ \E gv \in Garbage :
       D' = initFESpaceTensor(TensorDim(eqn.op), eqn.dim, eqn.nbQuads,
                              eqn.nbElts, gv)
  /\ plast' = [op |-> "initFESpaceTensor"]
  /\ UNCHANGED <<eqn, kern, xvec, yvec, views, wpc>>
  /\ UNCHANGED <<geomVars, reorderVars, odeVars, copyVars>>

NextDims == CallInitFESpaceTensor

SpecDims == InitDims /\ [][NextDims]_vars

\* C13: QuadDim is 0 for BtDB, 2 for GtDG and 1 for every other operator,
\* EltDim is QuadDim + 1 and TensorDim is QuadDim + 2; the coefficient tensor
\* is sized (nbQuads, nbElts) at rank 2, (dim, nbQuads, nbElts) at rank 3 and
\* (dim, dim, nbQuads, nbElts) at rank 4, the element index last.
C13_RanksAndExtents ==
  /\ QuadDim("BtDB") = 0
  /\ QuadDim("GtDG") = 2
  /\ \A op \in PAOps \ {"BtDB", "GtDG"} : QuadDim(op) = 1
  /\ \A op \in PAOps :
       EltDim(op) = QuadDim(op) + 1 /\ TensorDim(op) = QuadDim(op) + 2
  /\ plast.op = "initFESpaceTensor" =>
       /\ Len(D.data) = Prod(D.shape)
       /\ eqn.op = "BtDB" => D.shape = <<eqn.nbQuads, eqn.nbElts>>
       /\ eqn.op \in {"BtDG", "GtDB"} =>
            D.shape = <<eqn.dim, eqn.nbQuads, eqn.nbElts>>
       /\ eqn.op = "GtDG" =>
            D.shape = <<eqn.dim, eqn.dim, eqn.nbQuads, eqn.nbElts>>

C13_Witness ==
  /\ plast.op = "initFESpaceTensor"
  /\ eqn.op = "GtDG"
  /\ D.shape = <<3, 3, 2, 2>>

\* --------------------------------- partial assembly: evaluating the tensor
\* a view is an offset into a buffer and the extents seen from there
WholeView(shape) == [off |-> 0, shape |-> shape]

Front(shape) == SubSeq(shape, 1, Len(shape) - 1)

\* Tensor::slice(t, idx): the view of t at idx of its last, slowest index; of
\* a rank-1 tensor it is the single entry idx
Slice(t, idx) ==
  [off |-> t.off + idx * Prod(Front(t.shape)), shape |-> Front(t.shape)]

\* the 0-based buffer offsets a view covers
ViewOffsets(v) == v.off..(v.off + Prod(v.shape) - 1)

\* operator= of a view or a scalar reference: every entry it covers gets x
AssignView(data, v, x) ==
  [p \in 1..Len(data) |-> IF (p - 1) \in ViewOffsets(v) THEN x ELSE data[p]]

\* ir.IntPoint(k): the point is known by its index, its weight is k + 1
IntPoint(k) == [index |-> k, weight |-> k + 1]

\* det of a dim x dim matrix stored with the first index fastest, dim in {1, 2}
DetM(dim, M) == IF dim = 1 THEN M[1] ELSE M[1] * M[4] - M[3] * M[2]

\* where MeshJac<Vector, false, true>::operator()(e, k) points locJ:
\* &J(0, 0, k, e)
MeshJacOffset(eq, e, k) == eq.dim * eq.dim * (k + eq.nbQuads * e)

getJacFirstPoint(eq, e, k) ==
  [p \in 1..(eq.dim * eq.dim) |-> eq.J[MeshJacOffset(eq, e, 0) + p]]

\* Equation::getJac(e, k): the dim x dim matrix behind Jac(e, k)
getJac(eq, e, k) ==
  [p \in 1..(eq.dim * eq.dim) |-> eq.J[MeshJacOffset(eq, e, k) + p]]

\* TestEq::evalD(D_ek, info)
TestEqEvalDInfo(data, D_ek, ip, J_ek) ==
  [data |-> AssignView(data, D_ek, 1), wrote |-> ViewOffsets(D_ek)]

\* TestEq::evalD(D_ek, dim, k, e, Tr, ip, J_ek): the body is empty
TestEqEvalD(data, D_ek, dim, ip, J_ek) == [data |-> data, wrote |-> {}]

\* HostMassEq::evalD(D_ek, info)
HostMassEqEvalDInfo(data, D_ek, dim, ip, J_ek) ==
  [data |-> AssignView(data, D_ek, ip.weight * DetM(dim, J_ek)),
   wrote |-> ViewOffsets(D_ek)]

HostMassEqEvalDNoWeight(data, D_ek, dim, ip, J_ek) ==
  [data |-> AssignView(data, D_ek, DetM(dim, J_ek)), wrote |-> ViewOffsets(D_ek)]

\* HostMassEq::evalD(D_ek, dim, k, e, Tr, ip, J_ek)
HostMassEqEvalD(data, D_ek, dim, ip, J_ek) ==
  [data |-> AssignView(data, D_ek, ip.weight * DetM(dim, J_ek)),
   wrote |-> ViewOffsets(D_ek)]

\* eq->evalD(D_ek, info) on the class of eq
EvalDInfo(eq, data, D_ek, ip, J_ek) ==
  IF eq.kind = "TestEq" THEN TestEqEvalDInfo(data, D_ek, ip, J_ek)
  ELSE HostMassEqEvalDInfo(data, D_ek, eq.dim, ip, J_ek)

\* eq->evalD(D_ek, eq->getDim(), k, e, Tr, ip, J_ek) on the class of eq
EvalD(eq, data, D_ek, ip, J_ek) ==
  IF eq.kind = "TestEq" THEN TestEqEvalD(data, D_ek, eq.dim, ip, J_ek)
  ELSE HostMassEqEvalD(data, D_ek, eq.dim, ip, J_ek)

\* QuadTensorFunc::evalD(e, D_e) from point k on; acc carries the buffer of D
\* and the list of the evalD invocations made so far
RECURSIVE QuadTensorFuncEvalD(_, _, _, _, _)
QuadTensorFuncEvalD(eq, e, D_e, k, acc) ==
  IF k >= eq.nbQuads THEN acc
  ELSE LET D_ek == Slice(D_e, k)
           J_ek == getJac(eq, e, k)
           ip == IntPoint(k)
           r == EvalD(eq, acc.data, D_ek, ip, J_ek)
       IN QuadTensorFuncEvalD(eq, e, D_e, k + 1,
            [data |-> r.data,
             trace |-> Append(acc.trace,
                         [e |-> e, k |-> k, J_ek |-> J_ek, ip |-> ip,
                          D_ek |-> D_ek, wrote |-> r.wrote])])

\* PADomainIntegrator::evalD(D) from element e on
RECURSIVE PADomainIntegratorEvalD(_, _, _, _)
PADomainIntegratorEvalD(eq, shape, e, acc) ==
  IF e >= eq.nbElts THEN acc
  ELSE LET D_e == Slice(WholeView(shape), e)
       IN PADomainIntegratorEvalD(eq, shape, e + 1,
            QuadTensorFuncEvalD(eq, e, D_e, 0, acc))

\* ------------------------------------- partial assembly: applying a kernel
\* local dofs per element of the first-order space the kernels act on
NbDofs == 2

\* the basis-to-quadrature map the kernel tabulates at construction: the value
\* of local basis function i at point k
Shape(i, k) == IF i = 0 THEN 2 - k ELSE 1 + k

\* sum over j of Shape(j, k) * x[j + NbDofs*e]
RECURSIVE ToQuad(_, _, _, _)
ToQuad(x, e, k, j) ==
  IF j >= NbDofs THEN 0
  ELSE Shape(j, k) * At(x, j + NbDofs * e) + ToQuad(x, e, k, j + 1)

\* sum over k of Shape(i, k) * D(k, e) * ToQuad(x, e, k)
RECURSIVE ToDofs(_, _, _, _, _, _)
ToDofs(coef, nbQuads, x, e, i, k) ==
  IF k >= nbQuads THEN 0
  ELSE Shape(i, k) * At(coef, k + nbQuads * e) * ToQuad(x, e, k, 0)
       + ToDofs(coef, nbQuads, x, e, i, k + 1)

\* HostDomainKernel<BtDB>::MultAdd: y += B^T D B x, element by element
HostDomainKernelMultAdd(coef, nbQuads, x, y) ==
  [p \in 1..Len(y) |->
     y[p] + ToDofs(coef, nbQuads, x, (p - 1) \div NbDofs, (p - 1) % NbDofs, 0)]

\* HostDomainKernel<BtDB>::Mult: y = B^T D B x
HostDomainKernelMult(coef, nbQuads, x, y) ==
  HostDomainKernelMultAdd(coef, nbQuads, x, Zeros(Len(y)))

PADomainKernelMultAccumulates(eq, Dt, x, y) ==
  HostDomainKernelMultAdd(Dt.data, eq.nbQuads, x, y)

\* PADomainKernel::Mult(x, y): kernel.Mult(D, x, y)
PADomainKernelMult(eq, Dt, x, y) ==
  HostDomainKernelMult(Dt.data, eq.nbQuads, x, y)

\* PADomainKernel::MultAdd(x, y): kernel.MultAdd(D, x, y)
PADomainKernelMultAdd(eq, Dt, x, y) ==
  HostDomainKernelMultAdd(Dt.data, eq.nbQuads, x, y)

\* the coefficients kernel.Mult(qfunc, x, y) obtains through qfunc.evalD(e, D_e)
\* in a buffer of the kernel that held gv before
QFuncCoefficients(eq, gv) ==
  PADomainIntegratorEvalD(eq, <<eq.nbQuads, eq.nbElts>>, 0,
    [data |-> [p \in 1..(eq.nbQuads * eq.nbElts) |-> gv], trace |-> <<>>]).data

\* PADomainIntegrator::Mult(x, y): kernel.Mult(qfunc, x, y)
PADomainIntegratorMult(eq, gv, x, y) ==
  HostDomainKernelMult(QFuncCoefficients(eq, gv), eq.nbQuads, x, y)

\* PADomainIntegrator::MultAdd(x, y): kernel.MultAdd(qfunc, x, y)
PADomainIntegratorMultAdd(eq, gv, x, y) ==
  HostDomainKernelMultAdd(QFuncCoefficients(eq, gv), eq.nbQuads, x, y)

\* PADomainKernel::PADomainKernel(eq): D is sized, a local PADomainIntegrator
\* integ(eq) evaluates it, and integ is destroyed on the way out, its
\* QuadTensorFunc member deleting eq
PADomainKernelCtor(eq, gv) ==
  LET D0 == initFESpaceTensor(TensorDim(eq.op), eq.dim, eq.nbQuads, eq.nbElts, gv)
      acc == PADomainIntegratorEvalD(eq, D0.shape, 0,
                                     [data |-> D0.data, trace |-> <<>>])
  IN [D |-> [shape |-> D0.shape, data |-> acc.data],
      trace |-> acc.trace,
      eq |-> [eq EXCEPT !.deletes = @ + 1]]

\* ---------------------------------- partial assembly: the life of kernels
\* the classes derived from Equation<BtDB, HostVector<double>>
EquationKinds == {"TestEq", "HostMassEq"}

NoPACall ==
  [op |-> "none", kernel |-> "none", trace |-> <<>>, x0 |-> <<>>,
   y0 |-> <<>>, D0 |-> EmptyArray, uaf |-> FALSE]

\* an access through a pointer to a deleted object may die or carry on
UafOutcomes(dangling) == IF dangling THEN {"ok", "segv"} ELSE {"ok"}

\* what is computed from a deleted object: the values it held, or whatever
\* lies there by now
UafResults(dangling, intact) ==
  IF dangling
  THEN {intact} \cup {[p \in DOMAIN intact |-> gv] : gv \in Garbage}
  ELSE {intact}

\* a caller holds an Equation made by new, and the vectors x and y
InitPA ==
  /\ GeomIdle
  /\ ReorderIdle
  /\ ODEIdle
  /\ CopyIdle
  /\ \E kind \in EquationKinds : \E dim \in 1..2 :
       \E nbQuads \in 1..MaxNbQuads : \E nbElts \in 1..MaxNbElts :
       \E base \in 1..MaxJac :
         /\ eqn = Equation(kind, "BtDB", dim, nbQuads, nbElts, base)
         /\ xvec \in {[p \in 1..(NbDofs * nbElts) |-> 1],
                      [p \in 1..(NbDofs * nbElts) |-> p]}
         /\ yvec \in {[p \in 1..(NbDofs * nbElts) |-> 0],
                      [p \in 1..(NbDofs * nbElts) |-> 3]}
  /\ D = EmptyArray
  /\ kern = [pa |-> "none", mf |-> "none", status |-> "ok", applied |-> 0,
             scratch |-> 0]
  /\ views = <<>>
  /\ wpc = <<>>
  /\ plast = NoPACall

\* createPADomainKernel(eq)
CreatePADomainKernel ==
  /\ kern.status = "ok"
  /\ kern.pa = "none"
  /\ \E gv \in Garbage : \E r \in {PADomainKernelCtor(eqn, gv)} :
     \E outcome \in UafOutcomes(eqn.deletes > 0) :
       /\ \E data \in UafResults(eqn.deletes > 0, r.D.data) :
            D' = [r.D EXCEPT !.data = data]
       /\ eqn' = r.eq
       /\ kern' = [kern EXCEPT !.pa = "live", !.status = outcome]
       /\ plast' = [NoPACall EXCEPT !.op = "createPADomainKernel",
                                    !.kernel = "pa", !.trace = r.trace,
                                    !.uaf = (eqn.deletes > 0)]
  /\ UNCHANGED <<xvec, yvec, views, wpc>>
  /\ UNCHANGED <<geomVars, reorderVars, odeVars, copyVars>>

\* createMFDomainKernel(eq): kernel(eq) reads the equation, qfunc(eq) keeps it
CreateMFDomainKernel ==
  /\ kern.status = "ok"
  /\ kern.mf = "none"
  /\ \E gv \in Garbage : \E outcome \in UafOutcomes(eqn.deletes > 0) :
       kern' = [kern EXCEPT !.mf = "live", !.status = outcome, !.scratch = gv]
  /\ plast' = [NoPACall EXCEPT !.op = "createMFDomainKernel", !.kernel = "mf",
                               !.uaf = (eqn.deletes > 0)]
  /\ UNCHANGED <<eqn, D, xvec, yvec, views, wpc>>
  /\ UNCHANGED <<geomVars, reorderVars, odeVars, copyVars>>

\* delete of a PADomainKernel: kernel and D go, nothing deletes eq
DeletePADomainKernel ==
  /\ kern.status = "ok"
  /\ kern.pa = "live"
  /\ kern' = [kern EXCEPT !.pa = "deleted"]
  /\ plast' = [NoPACall EXCEPT !.op = "delete", !.kernel = "pa"]
  /\ UNCHANGED <<eqn, D, xvec, yvec, views, wpc>>
  /\ UNCHANGED <<geomVars, reorderVars, odeVars, copyVars>>

\* delete of a PADomainIntegrator: ~QuadTensorFunc() deletes eq
DeleteMFDomainKernel ==
  /\ kern.status = "ok"
  /\ kern.mf = "live"
  /\ eqn' = [eqn EXCEPT !.deletes = @ + 1]
  /\ \E outcome \in UafOutcomes(eqn.deletes > 0) :
       kern' = [kern EXCEPT !.mf = "deleted", !.status = outcome]
  /\ plast' = [NoPACall EXCEPT !.op = "delete", !.kernel = "mf",
                               !.uaf = (eqn.deletes > 0)]
  /\ UNCHANGED <<D, xvec, yvec, views, wpc>>
  /\ UNCHANGED <<geomVars, reorderVars, odeVars, copyVars>>

\* PADomainKernel::Mult(x, y)
CallPAMult ==
  /\ kern.status = "ok"
  /\ kern.pa = "live"
  /\ kern.applied < MaxApply
  /\ yvec' = PADomainKernelMult(eqn, D, xvec, yvec)
  /\ kern' = [kern EXCEPT !.applied = @ + 1]
  /\ plast' = [NoPACall EXCEPT !.op = "Mult", !.kernel = "pa", !.x0 = xvec,
                               !.y0 = yvec, !.D0 = D]
  /\ UNCHANGED <<eqn, D, xvec, views, wpc>>
  /\ UNCHANGED <<geomVars, reorderVars, odeVars, copyVars>>

\* PADomainKernel::MultAdd(x, y)
CallPAMultAdd ==
  /\ kern.status = "ok"
  /\ kern.pa = "live"
  /\ kern.applied < MaxApply
  /\ yvec' = PADomainKernelMultAdd(eqn, D, xvec, yvec)
  /\ kern' = [kern EXCEPT !.applied = @ + 1]
  /\ plast' = [NoPACall EXCEPT !.op = "MultAdd", !.kernel = "pa", !.x0 = xvec,
                               !.y0 = yvec, !.D0 = D]
  /\ UNCHANGED <<eqn, D, xvec, views, wpc>>
  /\ UNCHANGED <<geomVars, reorderVars, odeVars, copyVars>>

\* PADomainIntegrator::Mult(x, y): qfunc goes through eq
CallMFMult ==
  /\ kern.status = "ok"
  /\ kern.mf = "live"
  /\ kern.applied < MaxApply
  /\ yvec' \in UafResults(eqn.deletes > 0,
                 PADomainIntegratorMult(eqn, kern.scratch, xvec, yvec))
  /\ \E outcome \in UafOutcomes(eqn.deletes > 0) :
       kern' = [kern EXCEPT !.applied = @ + 1, !.status = outcome]
  /\ plast' = [NoPACall EXCEPT !.op = "Mult", !.kernel = "mf", !.x0 = xvec,
                               !.y0 = yvec, !.D0 = D,
                               !.uaf = (eqn.deletes > 0)]
  /\ UNCHANGED <<eqn, D, xvec, views, wpc>>
  /\ UNCHANGED <<geomVars, reorderVars, odeVars, copyVars>>

\* PADomainIntegrator::MultAdd(x, y): qfunc goes through eq
CallMFMultAdd ==
  /\ kern.status = "ok"
  /\ kern.mf = "live"
  /\ kern.applied < MaxApply
  /\ yvec' \in UafResults(eqn.deletes > 0,
                 PADomainIntegratorMultAdd(eqn, kern.scratch, xvec, yvec))
  /\ \E outcome \in UafOutcomes(eqn.deletes > 0) :
       kern' = [kern EXCEPT !.applied = @ + 1, !.status = outcome]
  /\ plast' = [NoPACall EXCEPT !.op = "MultAdd", !.kernel = "mf", !.x0 = xvec,
                               !.y0 = yvec, !.D0 = D,
                               !.uaf = (eqn.deletes > 0)]
  /\ UNCHANGED <<eqn, D, xvec, views, wpc>>
  /\ UNCHANGED <<geomVars, reorderVars, odeVars, copyVars>>

NextPA ==
  \/ CreatePADomainKernel
  \/ CreateMFDomainKernel
  \/ DeletePADomainKernel
  \/ DeleteMFDomainKernel
  \/ CallPAMult
  \/ CallPAMultAdd
  \/ CallMFMult
  \/ CallMFMultAdd

SpecPA == InitPA /\ [][NextPA]_vars

\* a PADomainKernel has just been built from a live equation
Built == plast.op = "createPADomainKernel" /\ ~plast.uaf /\ kern.status = "ok"

\* entry (i, j) of the Jacobian MeshJac stores for point k of element e
StoredJ(i, j, k, e) ==
  At(eqn.J, i + eqn.dim * (j + eqn.dim * (k + eqn.nbQuads * e)))

StoredDet(k, e) ==
  IF eqn.dim = 1 THEN StoredJ(0, 0, k, e)
  ELSE StoredJ(0, 0, k, e) * StoredJ(1, 1, k, e)
       - StoredJ(0, 1, k, e) * StoredJ(1, 0, k, e)

C19_EquationOutlivesKernels ==
  /\ (kern.pa = "live" \/ kern.mf = "live") => eqn.deletes = 0
  /\ eqn.deletes <= 1
  /\ (plast.op \in {"Mult", "MultAdd"}) => ~plast.uaf

\* C20: for TestEq and for HostMassEq the two evalD overloads assign the same
\* coefficient at the same point, so after the evaluation every entry of D
\* has been assigned: by TestEq, 1 everywhere.
C20_OverloadsAgree ==
  Built =>
    /\ \A n \in DOMAIN plast.trace :
         /\ plast.trace[n].wrote
              = EvalDInfo(eqn, D.data, plast.trace[n].D_ek, plast.trace[n].ip,
                          plast.trace[n].J_ek).wrote
         /\ D.data
              = EvalDInfo(eqn, D.data, plast.trace[n].D_ek, plast.trace[n].ip,
                          plast.trace[n].J_ek).data
    /\ eqn.kind = "TestEq" => \A p \in DOMAIN D.data : D.data[p] = 1

\* f[0] + ... + f[n - 1]
RECURSIVE SumFn(_, _)
SumFn(f, n) == IF n = 0 THEN 0 ELSE f[n - 1] + SumFn(f, n - 1)

\* the coefficient at (k, e) of the operator the kernel named in plast stands
\* for: the stored D of a PADomainKernel, what the equation assigns for a
\* PADomainIntegrator
CoefficientOf(k, e) ==
  IF plast.kernel = "pa" THEN At(D.data, k + eqn.nbQuads * e)
  ELSE IF eqn.kind = "HostMassEq" THEN (k + 1) * StoredDet(k, e)
  ELSE kern.scratch

\* entry i of element e of A*x for the x the call was given
TimesX(i, e) ==
  SumFn([k \in 0..(eqn.nbQuads - 1) |->
           Shape(i, k) * CoefficientOf(k, e)
             * (Shape(0, k) * At(plast.x0, 2 * e)
                + Shape(1, k) * At(plast.x0, 2 * e + 1))],
        eqn.nbQuads)

\* C16: Mult(x, y) leaves y = A*x whatever y held, MultAdd(x, y) leaves
\* y = y0 + A*x, neither changes x or D, and so a repeated Mult with the same
\* x gives the same y.
C16_MultOverwritesMultAddAccumulates ==
  (plast.op \in {"Mult", "MultAdd"} /\ ~plast.uaf /\ kern.status = "ok") =>
    /\ xvec = plast.x0
    /\ D = plast.D0
    /\ Len(yvec) = Len(plast.y0)
    /\ \A e \in 0..(eqn.nbElts - 1) : \A i \in 0..1 :
         At(yvec, i + 2 * e)
           = (IF plast.op = "MultAdd" THEN At(plast.y0, i + 2 * e) ELSE 0)
             + TimesX(i, e)

C16_Witness ==
  /\ plast.op = "Mult"
  /\ plast.kernel = "pa"
  /\ kern.status = "ok"
  /\ kern.applied = 2
  /\ eqn.kind = "HostMassEq"
  /\ eqn.nbElts = 2
  /\ \A p \in DOMAIN yvec : yvec[p] > 0 /\ plast.y0[p] > yvec[p]

\* ------------------- the two contraction strategies of HostDomainKernel
\* One quadrilateral, bilinear basis, 2 x 2 rule.  Dof (i1, i2) is entry
\* i1 + 2*i2 of x and y, point (q1, q2) is entry q1 + 2*q2 of the coefficient.
\* the 1-D basis function i at the 1-D point q, in two tabulations
Basis1d(table, i, q) ==
  IF table = 1 THEN (IF i = 0 THEN 2 - q ELSE 1 + q)
  ELSE (IF i = 0 THEN 3 - 2 * q ELSE q + q * q)

\* the basis function (i1, i2) at the point (q1, q2)
Basis2d(table, i, q) ==
  Basis1d(table, i % 2, q % 2) * Basis1d(table, i \div 2, q \div 2)

\* general path: the dense contraction y = B^T D B x over all dofs and points
GeneralPathMult(table, coef, x) ==
  LET u == [q \in 0..3 |-> SumFn([j \in 0..3 |-> Basis2d(table, j, q) * At(x, j)], 4)]
  IN [p \in 1..4 |->
        SumFn([q \in 0..3 |-> Basis2d(table, p - 1, q) * At(coef, q) * u[q]], 4)]

TensorPathMultOneAxis(table, coef, x) ==
  LET t1 == [q1 \in 0..1, i2 \in 0..1 |->
               SumFn([i1 \in 0..1 |-> Basis1d(table, i1, q1) * At(x, i1 + 2 * i2)], 2)]
      v == [q1 \in 0..1, q2 \in 0..1 |-> At(coef, q1 + 2 * q2) * t1[q1, q2]]
      t2 == [i1 \in 0..1, q2 \in 0..1 |->
               SumFn([q1 \in 0..1 |-> Basis1d(table, i1, q1) * v[q1, q2]], 2)]
  IN [p \in 1..4 |-> t2[(p - 1) % 2, (p - 1) \div 2]]

\* tensor-product path: one 1-D contraction per axis to the points, the
\* coefficient, one 1-D contraction per axis back to the dofs
TensorPathMult(table, coef, x) ==
  LET t1 == [q1 \in 0..1, i2 \in 0..1 |->
               SumFn([i1 \in 0..1 |-> Basis1d(table, i1, q1) * At(x, i1 + 2 * i2)], 2)]
      u == [q1 \in 0..1, q2 \in 0..1 |->
              SumFn([i2 \in 0..1 |-> Basis1d(table, i2, q2) * t1[q1, i2]], 2)]
      v == [q1 \in 0..1, q2 \in 0..1 |-> At(coef, q1 + 2 * q2) * u[q1, q2]]
      t2 == [i1 \in 0..1, q2 \in 0..1 |->
               SumFn([q1 \in 0..1 |-> Basis1d(table, i1, q1) * v[q1, q2]], 2)]
  IN [p \in 1..4 |->
        SumFn([q2 \in 0..1 |-> Basis1d(table, (p - 1) \div 2, q2)
                                 * t2[(p - 1) % 2, q2]], 2)]

\* a mass operator with a constant coefficient on one quadrilateral: D holds
\* the coefficient at the four points (unit weights, unit Jacobian)
InitPaths ==
  /\ GeomIdle
  /\ ReorderIdle
  /\ ODEIdle
  /\ CopyIdle
  /\ \E table \in 1..2 : \E c \in 1..MaxCoef :
       /\ eqn = [kind |-> "HostMassEq", table |-> table, coefficient |-> c]
       /\ D = [shape |-> <<4, 1>>, data |-> [q \in 1..4 |-> c]]
  /\ xvec \in [1..4 -> 0..MaxEntry]
  /\ yvec = <<>>
  /\ kern = [tensor |-> <<>>, general |-> <<>>]
  /\ views = <<>>
  /\ wpc = <<>>
  /\ plast = [op |-> "none"]

\* Mult through the tensor-product path
CallTensorPath ==
  /\ kern.tensor = <<>>
  /\ yvec' = TensorPathMult(eqn.table, D.data, xvec)
  /\ kern' = [kern EXCEPT !.tensor = TensorPathMult(eqn.table, D.data, xvec)]
  /\ plast' = [op |-> "tensor"]
  /\ UNCHANGED <<eqn, D, xvec, views, wpc>>
  /\ UNCHANGED <<geomVars, reorderVars, odeVars, copyVars>>

\* Mult through the general path
CallGeneralPath ==
  /\ kern.general = <<>>
  /\ yvec' = GeneralPathMult(eqn.table, D.data, xvec)
  /\ kern' = [kern EXCEPT !.general = GeneralPathMult(eqn.table, D.data, xvec)]
  /\ plast' = [op |-> "general"]
  /\ UNCHANGED <<eqn, D, xvec, views, wpc>>
  /\ UNCHANGED <<geomVars, reorderVars, odeVars, copyVars>>

NextPaths == CallTensorPath \/ CallGeneralPath

SpecPaths == InitPaths /\ [][NextPaths]_vars

\* C17: on a tensor-product element the tensor-product path and the general
\* path give the same Mult output for the same coefficient tensor and x.
C17_PathsAgree ==
  (kern.tensor # <<>> /\ kern.general # <<>>) => kern.tensor = kern.general

C17_Witness ==
  /\ kern.tensor # <<>>
  /\ kern.general # <<>>
  /\ yvec = kern.tensor
  /\ xvec = <<1, 1, 1, 1>>
  /\ eqn.coefficient = 2
  /\ eqn.table = 2
  /\ yvec = <<288, 144, 144, 72>>

\* ------------------------- the element loop of evalD on several workers
\* Each worker runs the body of the loop of PADomainIntegrator::evalD for the
\* elements it takes, statement by statement, on the one integrator: its D_e,
\* the D_ek of its QuadTensorFunc and the locJ of the equation's MeshJac are
\* members, shared by all workers.
Workers == 1..MaxWorkers

IdleWorker == [pc |-> "idle", e |-> 0, k |-> 0]

WorkersDone == kern.todo = {} /\ \A w \in Workers : wpc[w] = IdleWorker

InitWorkers ==
  /\ GeomIdle
  /\ ReorderIdle
  /\ ODEIdle
  /\ CopyIdle
  /\ \E kind \in EquationKinds : \E dim \in 1..2 :
       \E nbQuads \in 1..MaxNbQuads : \E nbElts \in 1..MaxNbElts :
       \E base \in 1..MaxJac : \E gv \in Garbage :
         /\ eqn = Equation(kind, "BtDB", dim, nbQuads, nbElts, base)
         /\ D = initFESpaceTensor(2, dim, nbQuads, nbElts, gv)
         /\ kern = [todo |-> 0..(nbElts - 1), overlapped |-> FALSE, gv |-> gv]
  /\ xvec = <<>>
  /\ yvec = <<>>
  /\ views = [D_e |-> WholeView(<<>>), D_ek |-> WholeView(<<>>), locJ |-> 0]
  /\ wpc = [w \in Workers |-> IdleWorker]
  /\ plast = [op |-> "none"]

\* PADomainIntegrator::evalD, the loop body for an element not yet taken:
\* D_e.slice(D, e)
StartElement(w) ==
  /\ wpc[w].pc = "idle"
  /\ \E e \in kern.todo :
       /\ views' = [views EXCEPT !.D_e = Slice(WholeView(D.shape), e)]
       /\ wpc' = [wpc EXCEPT ![w] = [pc |-> "slice", e |-> e, k |-> 0]]
       /\ kern' = [kern EXCEPT
                     !.todo = @ \ {e},
                     !.overlapped = @ \/ \E o \in Workers \ {w} : wpc[o].pc # "idle"]
  /\ plast' = [op |-> "D_e.slice"]
  /\ UNCHANGED <<eqn, D, xvec, yvec>>
  /\ UNCHANGED <<geomVars, reorderVars, odeVars, copyVars>>

\* QuadTensorFunc::evalD: D_ek.slice(D_e, k), D_e being the integrator's member
SliceQuadPoint(w) ==
  /\ wpc[w].pc = "slice"
  /\ views' = [views EXCEPT !.D_ek = Slice(views.D_e, wpc[w].k)]
  /\ wpc' = [wpc EXCEPT ![w].pc = "getJac"]
  /\ plast' = [op |-> "D_ek.slice"]
  /\ UNCHANGED <<eqn, D, kern, xvec, yvec>>
  /\ UNCHANGED <<geomVars, reorderVars, odeVars, copyVars>>

\* QuadTensorFunc::evalD: const JTensor& J_ek = eq->getJac(e, k), a reference
\* to locJ after locJ.setView(&J(0, 0, k, e))
GetJacobian(w) ==
  /\ wpc[w].pc = "getJac"
  /\ views' = [views EXCEPT !.locJ = MeshJacOffset(eqn, wpc[w].e, wpc[w].k)]
  /\ wpc' = [wpc EXCEPT ![w].pc = "evalD"]
  /\ plast' = [op |-> "getJac"]
  /\ UNCHANGED <<eqn, D, kern, xvec, yvec>>
  /\ UNCHANGED <<geomVars, reorderVars, odeVars, copyVars>>

\* QuadTensorFunc::evalD: eq->evalD(D_ek, dim, k, e, Tr, ip, J_ek) and ++k
EvalPoint(w) ==
  /\ wpc[w].pc = "evalD"
  /\ D' = [D EXCEPT !.data =
             EvalD(eqn, D.data, views.D_ek, IntPoint(wpc[w].k),
                   [p \in 1..(eqn.dim * eqn.dim) |-> eqn.J[views.locJ + p]]).data]
  /\ wpc' = [wpc EXCEPT ![w] = IF wpc[w].k + 1 < eqn.nbQuads
                                THEN [@ EXCEPT !.pc = "slice", !.k = @ + 1]
                                ELSE IdleWorker]
  /\ plast' = [op |-> "evalD"]
  /\ UNCHANGED <<eqn, kern, views, xvec, yvec>>
  /\ UNCHANGED <<geomVars, reorderVars, odeVars, copyVars>>

NextWorkers ==
  \E w \in Workers :
    \/ StartElement(w)
    \/ SliceQuadPoint(w)
    \/ GetJacobian(w)
    \/ EvalPoint(w)

SpecWorkers == InitWorkers /\ [][NextWorkers]_vars

\* what the sequential loop leaves in D
SequentialD ==
  PADomainIntegratorEvalD(eqn, D.shape, 0,
    [data |-> [p \in 1..Len(D.data) |-> kern.gv], trace |-> <<>>]).data

\* C18: whatever the order of the elements and however the workers' steps
\* interleave, once every element is done D is what the sequential loop
\* leaves in it.
C18_OrderAndInterleavingIrrelevant == WorkersDone => D.data = SequentialD

\* runs in which the elements were done one at a time, in whatever order,
\* do leave it there
OneAtATimeSameD == (WorkersDone /\ ~kern.overlapped) => D.data = SequentialD

\* ------------------------------------------ the Jacobians of a linear mesh
\* MeshJac<HostVector<double>, true, true>: the loop of the constructor,
\* locJ.setView(&J(0, 0, i)) = Jac(i, 0) for i = 0 .. nbElts - 1
RECURSIVE LinearMeshJacFill(_, _, _)
LinearMeshJacFill(store, J, i) ==
  IF i >= store.nbElts
  THEN J
  ELSE LET locJ == [off |-> store.dim * store.dim * i,
                    shape |-> <<store.dim, store.dim>>]
           store_i0 == getJac(store, i, 0)
       IN LinearMeshJacFill(store,
            [p \in 1..Len(J) |->
               IF (p - 1) \in ViewOffsets(locJ)
               THEN store_i0[p - locJ.off]
               ELSE J[p]],
            i + 1)

\* MeshJac<HostVector<double>, true, true>(fes, dim, quads, nbElts, ir_order):
\* J(dim, dim, nbElts) filled from a general store built on the same space
LinearMeshJac(dim, quads, nbElts, base, gv) ==
  LET store == [dim |-> dim, nbQuads |-> quads, nbElts |-> nbElts,
                J |-> EvalJacobians(dim, quads, nbElts, base)]
  IN [dim |-> dim, nbElts |-> nbElts,
      J |-> LinearMeshJacFill(store, SetSize(<<dim, dim, nbElts>>, gv).data, 0)]

LinearGetJacFirstElement(lin, e, k) ==
  [p \in 1..(lin.dim * lin.dim) |-> lin.J[p]]

\* MeshJac<HostVector<double>, true, true>::operator()(e, k):
\* locJ.setView(&J(0, 0, e))
LinearGetJac(lin, e, k) ==
  [p \in 1..(lin.dim * lin.dim) |-> lin.J[lin.dim * lin.dim * e + p]]

\* a general store exists on some space; no linear store yet
InitJac ==
  /\ GeomIdle
  /\ ReorderIdle
  /\ ODEIdle
  /\ CopyIdle
  /\ \E dim \in 1..MaxDim : \E nbQuads \in 1..MaxNbQuads :
       \E nbElts \in 1..MaxNbElts : \E base \in 0..MaxJac :
         eqn = Equation("Equation", "BtDB", dim, nbQuads, nbElts, base)
  /\ D = EmptyArray
  /\ kern = <<>>
  /\ xvec = <<>>
  /\ yvec = <<>>
  /\ views = <<>>
  /\ wpc = <<>>
  /\ plast = [op |-> "none"]

\* the linear store is constructed on the space of the general one
ConstructLinearMeshJac ==
  /\ kern = <<>>
  /\ \E base \in 0..MaxJac : \E gv \in Garbage :
       /\ EvalJacobians(eqn.dim, eqn.nbQuads, eqn.nbElts, base) = eqn.J
       /\ kern' = LinearMeshJac(eqn.dim, eqn.nbQuads, eqn.nbElts, base, gv)
  /\ plast' = [op |-> "MeshJac"]
  /\ UNCHANGED <<eqn, D, xvec, yvec, views, wpc>>
  /\ UNCHANGED <<geomVars, reorderVars, odeVars, copyVars>>

\* both stores are asked for the Jacobian at point k of element e
CallLinearGetJac ==
  /\ kern # <<>>
  /\ \E e \in 0..(eqn.nbElts - 1) : \E k \in 0..(eqn.nbQuads - 1) :
       plast' = [op |-> "getJac", e |-> e, k |-> k,
                 linear |-> LinearGetJac(kern, e, k),
                 general |-> getJac(eqn, e, k)]
  /\ UNCHANGED <<eqn, D, kern, xvec, yvec, views, wpc>>
  /\ UNCHANGED <<geomVars, reorderVars, odeVars, copyVars>>

NextJac ==
  \/ ConstructLinearMeshJac
  \/ CallLinearGetJac

SpecJac == InitJac /\ [][NextJac]_vars

\* C21: the linear store holds exactly one dim x dim matrix per element, each
\* filled at construction with what the general store gives at point 0 of
\* that element, and returns it for every quadrature point k.
C21_LinearStoreReturnsPointZero ==
  /\ kern # <<>> =>
       /\ Len(kern.J) = eqn.dim * eqn.dim * eqn.nbElts
       /\ \A e \in 0..(eqn.nbElts - 1) :
            \A p \in 1..(eqn.dim * eqn.dim) :
              kern.J[eqn.dim * eqn.dim * e + p] = getJac(eqn, e, 0)[p]
  /\ plast.op = "getJac" => plast.linear = getJac(eqn, plast.e, 0)

\* the last element asked at a later point, where the general store differs
C21_Witness ==
  /\ plast.op = "getJac"
  /\ plast.e = 1
  /\ plast.k = 1
  /\ eqn.dim = 2
  /\ plast.general # plast.linear

\* --------------------------------------- time integration through SUNDIALS
MaxSize == 1

MaxTime == 1

MaxDt == 2

MaxOthers == 1

MaxObjects == 4

CV_SUCCESS == 0

\* where a Vector's data may lie; never a vector length
DataPointers == {16, 24}

\* N_VNewEmpty_Serial(0), N_VNewEmpty_Parallel(comm, 0, 0): no data, length 0
NewEmptyNVector == [length |-> 0, global_length |-> 0, data |-> 0]

\* SundialsSolver: the members both solvers inherit, every handle NULL
SundialsSolver(class, parallel, debug) ==
  [class |-> class, parallel |-> parallel, debug |-> debug,
   use_implicit |-> TRUE, f |-> 0, sundials_mem |-> 0, flag |-> CV_SUCCESS,
   LSA |-> 0, A |-> 0, NLS |-> 0, y |-> NewEmptyNVector, state |-> "ok"]

\* an object SUNDIALS hands out: integrator memory ("mem"), linear solver
\* ("LS") or matrix ("Mat"); frees counts the times it was given back
NewObject(kind, slot) == [kind |-> kind, frees |-> 0, slot |-> slot, ls |-> 0]

\* CVODESolver::CVODESolver(lmm): sundials_mem = CVodeCreate(lmm), y empty
CVODESolverCtor(parallel, debug) ==
  [solver |-> [SundialsSolver("CVODE", parallel, debug)
                 EXCEPT !.sundials_mem = 1],
   sunobj |-> <<NewObject("mem", "none")>>]

\* ARKStepSolver::ARKStepSolver(type): use_implicit(type == IMPLICIT), y empty
ARKStepSolverCtor(parallel, debug, implicit) ==
  [solver |-> [SundialsSolver("ARKStep", parallel, debug)
                 EXCEPT !.use_implicit = implicit],
   sunobj |-> <<>>]

\* a handler at work: the solver and the SUNDIALS objects as it has left them
\* so far, the SUNDIALS calls it has made, the error it has raised if any,
\* and the caller's t and dt
Entering(s, objs, t, dt) ==
  [solver |-> s, sunobj |-> objs, trace |-> <<>>, raised |-> "none",
   t |-> t, dt |-> dt, tout |-> t]

Running(st) == st.raised = "none"

\* MFEM_VERIFY(cond, msg): mfem_error(msg) unless cond, in every build
MFEM_VERIFY(st, cond, msg) ==
  IF Running(st) /\ ~cond THEN [st EXCEPT !.raised = msg] ELSE st

\* MFEM_ASSERT(cond, msg): MFEM_VERIFY in a build with MFEM_DEBUG, else nothing
MFEM_ASSERT(st, cond, msg) ==
  IF st.solver.debug THEN MFEM_VERIFY(st, cond, msg) ELSE st

\* a SUNDIALS call has been made and the MFEM_ASSERT(cond, "error in name()")
\* that follows it is evaluated; failed tells whether the call reported failure
Checked(st, name, usesMem, failed, cond) ==
  LET after == MFEM_ASSERT(st, cond, name)
  IN [after EXCEPT !.trace =
        Append(@, [call |-> name, usesMem |-> usesMem,
                   mem |-> st.solver.sundials_mem, failed |-> failed,
                   raised |-> ~Running(after)])]

\* what a SUNDIALS function taking the integrator memory returns: a negative
\* flag when it fails, as it does when handed no memory
FlagOf(st, fail) ==
  IF fail \/ st.solver.sundials_mem = 0 THEN -1 ELSE CV_SUCCESS

\* flag = <name>(sundials_mem, ...); MFEM_ASSERT(flag != CV_SUCCESS, ...)
FlagCall(st, name, fail) ==
  IF ~Running(st) THEN st
  ELSE LET flag == FlagOf(st, fail)
       IN Checked([st EXCEPT !.solver.flag = flag], name, TRUE,
                  flag # CV_SUCCESS, flag # CV_SUCCESS)

\* flag = <name>SetLinearSolver(sundials_mem, LSA, ...) and its MFEM_ASSERT
AttachCall(st, name, fail) ==
  IF ~Running(st) THEN st
  ELSE LET flag == FlagOf(st, fail)
           mem == st.solver.sundials_mem
           attached == IF flag = CV_SUCCESS
                       THEN [st EXCEPT !.sunobj[mem].ls = st.solver.LSA]
                       ELSE st
       IN Checked([attached EXCEPT !.solver.flag = flag], name, TRUE,
                  flag # CV_SUCCESS, flag # CV_SUCCESS)

\* SUNLinSolFree, SUNMatDestroy, SUNNonlinSolFree, CVodeFree, ARKStepFree:
\* nothing for a NULL handle
FreeObject(st, h) ==
  IF h = 0 THEN st ELSE [st EXCEPT !.sunobj[h].frees = @ + 1]

\* if (LSA != NULL) { SUNLinSolFree(LSA); LSA = NULL; }
FreeExistingLSA(st) ==
  IF ~Running(st) THEN st
  ELSE [FreeObject(st, st.solver.LSA) EXCEPT !.solver.LSA = 0]

\* LSA = SUNLinSol_SPGMR(y, PREC_NONE, 0); MFEM_ASSERT(LSA, ...)
CreateSPGMR(st, fail) ==
  IF ~Running(st) THEN st
  ELSE LET h == IF fail THEN 0 ELSE Len(st.sunobj) + 1
           made == IF fail THEN st
                   ELSE [st EXCEPT !.sunobj = Append(@, NewObject("LS", "SPGMR"))]
       IN Checked([made EXCEPT !.solver.LSA = h], "SUNLinSol_SPGMR", FALSE,
                  fail, h # 0)

\* the store through a NULL handle that follows an unnoticed failed creation
NullStore(st, h) ==
  IF Running(st) /\ h = 0 THEN [st EXCEPT !.raised = "segv"] ELSE st

\* LSA = SUNLinSolEmpty(); MFEM_ASSERT(sundials_mem, ...); LSA->content = ...
CreateEmptyLS(st, fail) ==
  IF ~Running(st) THEN st
  ELSE LET h == IF fail THEN 0 ELSE Len(st.sunobj) + 1
           made == IF fail THEN st
                   ELSE [st EXCEPT !.sunobj = Append(@, NewObject("LS", "wrapped"))]
       IN NullStore(Checked([made EXCEPT !.solver.LSA = h], "SUNLinSolEmpty",
                            FALSE, fail, st.solver.sundials_mem # 0), h)

\* A = SUNMatEmpty(); MFEM_ASSERT(sundials_mem, ...); A->content = ...
CreateEmptyMat(st, fail) ==
  IF ~Running(st) THEN st
  ELSE LET h == IF fail THEN 0 ELSE Len(st.sunobj) + 1
           made == IF fail THEN st
                   ELSE [st EXCEPT !.sunobj = Append(@, NewObject("Mat", "wrapped"))]
       IN NullStore(Checked([made EXCEPT !.solver.A = h], "SUNMatEmpty",
                            FALSE, fail, st.solver.sundials_mem # 0), h)

\* ODESolver::Init(f_): the base class keeps the operator
ODESolverInit(st, f) ==
  IF ~Running(st) THEN st ELSE [st EXCEPT !.solver.f = f.id]

\* Init: "Fill N_Vector wrapper with initial condition data"; others is what
\* the other ranks add to the MPI_Allreduce sum in global_size
FillNVector(st, loc_size, x, others) ==
  IF ~Running(st) THEN st
  ELSE IF ~st.solver.parallel
       THEN [st EXCEPT !.solver.y.length = x.size, !.solver.y.data = x.data]
       ELSE LET global_size == loc_size + others
            IN [st EXCEPT !.solver.y.length = x.size,
                          !.solver.y.global_length = x.data]

\* MFEM_VERIFY(loc_size == x.Size(), ...) of Init(f_, t, x)
SizesConsistent(f, x) == f.height = x.size

TimesConsistentAlways(f, t) == TRUE

\* MFEM_VERIFY(f_.GetTime() == t, ...) of Init(f_, t, x)
TimesConsistent(f, t) == f.time = t
\* CVODESolver::Init(f_, t, x); call number fail of the SUNDIALS calls fails
CVODESolverInit(st, f, t, x, others, fail) ==
  LET a == MFEM_VERIFY(st, SizesConsistent(f, x),
                       "error inconsistent operator and vector size")
      b == MFEM_VERIFY(a, TimesConsistent(f, t),
                       "error inconsistent initial times")
      c == ODESolverInit(b, f)
      d == FillNVector(c, f.height, x, others)
      e == FlagCall(d, "CVodeInit", fail = 1)
      g == FlagCall(e, "CVodeSetUserData", fail = 2)
      h == FlagCall(g, "CVodeSetSStolerances", fail = 3)
      i == CreateSPGMR(h, fail = 4)
  IN AttachCall(i, "CVodeSetLinearSolver", fail = 5)

\* sundials_mem = ARKStepCreate(fe, fi, t, y) with ODERhs in the slot of the
\* solver's kind; MFEM_ASSERT(sundials_mem, ...)
ARKStepCreate(st, fail) ==
  IF ~Running(st) THEN st
  ELSE LET h == IF fail THEN 0 ELSE Len(st.sunobj) + 1
           slot == IF st.solver.use_implicit THEN "implicit" ELSE "explicit"
           made == IF fail THEN st
                   ELSE [st EXCEPT !.sunobj = Append(@, NewObject("mem", slot))]
       IN Checked([made EXCEPT !.solver.sundials_mem = h], "ARKStepCreate",
                  FALSE, fail, h # 0)

\* if (use_implicit) { LSA = SUNLinSol_SPGMR(...); ARKStepSetLinearSolver(...) }
ARKStepDefaultLinearSolver(st, fail4, fail5) ==
  IF st.solver.use_implicit
  THEN AttachCall(CreateSPGMR(st, fail4), "ARKStepSetLinearSolver", fail5)
  ELSE st

\* ARKStepSolver::Init(f_, t, x)
ARKStepSolverInit(st, f, t, x, others, fail) ==
  LET a == MFEM_VERIFY(st, SizesConsistent(f, x),
                       "error inconsistent operator and vector size")
      b == MFEM_VERIFY(a, TimesConsistent(f, t),
                       "error inconsistent initial times")
      c == ODESolverInit(b, f)
      d == FillNVector(c, f.height, x, others)
      e == ARKStepCreate(d, fail = 1)
      g == FlagCall(e, "ARKStepSetUserData", fail = 2)
      h == FlagCall(g, "ARKStepSetSStolerances", fail = 3)
  IN ARKStepDefaultLinearSolver(h, fail = 4, fail = 5)

\* CVODESolver::Init(f_), ARKStepSolver::Init(f_): mfem_error(...)
InitOneArgument(st) ==
  MFEM_VERIFY(st, FALSE, "Initialization error: use the initialization method")

\* CVODESolver::SetLinearSolver(ls_spec)
CVODESolverSetLinearSolver(st, fail) ==
  LET a == FreeExistingLSA(st)
      b == CreateEmptyLS(a, fail = 1)
      c == CreateEmptyMat(b, fail = 2)
      d == AttachCall(c, "CVodeSetLinearSolver", fail = 3)
  IN FlagCall(d, "CVodeSetLinSysFn", fail = 4)

ImplicitCheckSkipped(s) == TRUE

\* MFEM_VERIFY(use_implicit, ...) of ARKStepSolver::SetLinearSolver
ImplicitCheck(s) == s.use_implicit

\* ARKStepSolver::SetLinearSolver(ls_spec)
ARKStepSolverSetLinearSolver(st, fail) ==
  LET a == FreeExistingLSA(st)
      v == MFEM_VERIFY(a, ImplicitCheck(a.solver),
             "The function is applicable only to implicit time integration.")
      b == CreateEmptyLS(v, fail = 1)
      c == CreateEmptyMat(b, fail = 2)
      d == AttachCall(c, "ARKStepSetLinearSolver", fail = 3)
  IN FlagCall(d, "ARKStepSetLinSysFn", fail = 4)

StepTargetIsDt(t, dt) == dt

\* double tout = t + dt
StepTarget(t, dt) == t + dt

\* NV_DATA(y) = x.GetData(); MFEM_VERIFY(NV_LENGTH(y) == x.Size(), "")
StepRebind(st, x) ==
  MFEM_VERIFY([st EXCEPT !.solver.y.data = x.data],
              st.solver.y.length = x.size, "MFEM_VERIFY of Step")

\* flag = CVode(sundials_mem, tout, y, &t, step_mode), or ARKStepEvolve;
\* MFEM_ASSERT(flag < 0, ...). The integrator writes the time it reached
\* into t unless it was handed no memory.
Evolve(st, name, fail, reached) ==
  IF ~Running(st) THEN st
  ELSE LET flag == FlagOf(st, fail)
           target == [st EXCEPT !.tout = StepTarget(st.t, st.dt)]
           moved == IF st.solver.sundials_mem = 0 THEN target
                    ELSE [target EXCEPT !.t = IF fail THEN st.t ELSE reached]
       IN Checked([moved EXCEPT !.solver.flag = flag], name, TRUE,
                  flag < 0, flag < 0)

\* flag = CVodeGetLastStep(sundials_mem, &dt), or ARKStepGetLastStep;
\* MFEM_ASSERT(flag != CV_SUCCESS, ...)
GetLastStep(st, name, fail, hlast) ==
  IF ~Running(st) THEN st
  ELSE LET flag == FlagOf(st, fail)
           told == IF flag = CV_SUCCESS THEN [st EXCEPT !.dt = hlast] ELSE st
       IN Checked([told EXCEPT !.solver.flag = flag], name, TRUE,
                  flag # CV_SUCCESS, flag # CV_SUCCESS)

\* CVODESolver::Step(x, t, dt)
CVODESolverStep(st, x, fail, reached, hlast) ==
  GetLastStep(Evolve(StepRebind(st, x), "CVode", fail = 1, reached),
              "CVodeGetLastStep", fail = 2, hlast)

\* ARKStepSolver::Step(x, t, dt)
ARKStepSolverStep(st, x, fail, reached, hlast) ==
  GetLastStep(Evolve(StepRebind(st, x), "ARKStepEvolve", fail = 1, reached),
              "ARKStepGetLastStep", fail = 2, hlast)

\* ~CVODESolver, ~ARKStepSolver: SUNMatDestroy(A); SUNLinSolFree(LSA);
\* SUNNonlinSolFree(NLS); CVodeFree(&sundials_mem) or ARKStepFree
SolverDtor(st) ==
  LET a == FreeObject(st, st.solver.A)
      b == FreeObject(a, st.solver.LSA)
      c == FreeObject(b, st.solver.NLS)
      d == FreeObject(c, st.solver.sundials_mem)
  IN [d EXCEPT !.solver.sundials_mem = 0]
\* the operators and vectors a caller may pass
Operators == [id : {1}, height : 0..MaxSize, time : 0..MaxTime]

Vectors == [size : 0..MaxSize, data : DataPointers]

NoOperator == [id |-> 0, height |-> 0, time |-> 0]

NoVector == [size |-> 0, data |-> 0]

\* a solver has been constructed, in a build with or without MFEM_DEBUG
InitSundials ==
  /\ GeomIdle
  /\ ReorderIdle
  /\ PAIdle
  /\ CopyIdle
  /\ \E parallel \in BOOLEAN : \E debug \in BOOLEAN : \E implicit \in BOOLEAN :
       \E made \in {CVODESolverCtor(parallel, debug),
                    ARKStepSolverCtor(parallel, debug, implicit)} :
         /\ solver = made.solver
         /\ sunobj = made.sunobj
  /\ slast = [op |-> "none"]

\* the handler returns or dies in mfem_error; what it was given and what it
\* did are kept for observation
Leave(st, op, in) ==
  /\ solver' = [st.solver EXCEPT !.state = IF st.raised = "none" THEN @
                                           ELSE "aborted"]
  /\ sunobj' = st.sunobj
  /\ slast' = [op |-> op, in |-> in, trace |-> st.trace,
               raised |-> st.raised, t |-> st.t, dt |-> st.dt,
               tout |-> st.tout]
  /\ UNCHANGED <<geomVars, reorderVars, paVars, copyVars>>

CallInitOneArgument ==
  /\ solver.state = "ok"
  /\ \E f \in Operators :
       Leave(InitOneArgument(Entering(solver, sunobj, 0, 0)), "Init(f)",
             [f |-> f])

CallInit ==
  /\ solver.state = "ok"
  /\ Len(sunobj) + 2 <= MaxObjects
  /\ \E f \in Operators : \E x \in Vectors : \E t \in 0..MaxTime :
       \E others \in (IF solver.parallel THEN 0..MaxOthers ELSE {0}) :
       \E fail \in 0..5 :
         \E st \in {IF solver.class = "CVODE"
                    THEN CVODESolverInit(Entering(solver, sunobj, t, 0),
                                         f, t, x, others, fail)
                    ELSE ARKStepSolverInit(Entering(solver, sunobj, t, 0),
                                           f, t, x, others, fail)} :
           Leave(st, "Init", [f |-> f, x |-> x, t |-> t, others |-> others])

CallSetLinearSolver ==
  /\ solver.state = "ok"
  /\ Len(sunobj) + 2 <= MaxObjects
  /\ \E fail \in 0..4 :
       \E st \in {IF solver.class = "CVODE"
                  THEN CVODESolverSetLinearSolver(
                         Entering(solver, sunobj, 0, 0), fail)
                  ELSE ARKStepSolverSetLinearSolver(
                         Entering(solver, sunobj, 0, 0), fail)} :
         Leave(st, "SetLinearSolver", [fail |-> fail])

CallStep ==
  /\ solver.state = "ok"
  /\ \E x \in Vectors : \E t \in 0..MaxTime : \E dt \in 1..MaxDt :
       \E fail \in 0..2 : \E reached \in (t + 1)..(t + dt) :
         \E hlast \in 1..(reached - t) :
           \E st \in {IF solver.class = "CVODE"
                      THEN CVODESolverStep(Entering(solver, sunobj, t, dt),
                                           x, fail, reached, hlast)
                      ELSE ARKStepSolverStep(Entering(solver, sunobj, t, dt),
                                             x, fail, reached, hlast)} :
             Leave(st, "Step", [x |-> x, t |-> t, dt |-> dt,
                                reached |-> reached, hlast |-> hlast])

CallDestructor ==
  /\ solver.state = "ok"
  /\ \E st \in {SolverDtor(Entering(solver, sunobj, 0, 0))} :
       /\ solver' = [st.solver EXCEPT !.state = "destroyed"]
       /\ sunobj' = st.sunobj
       /\ slast' = [op |-> "~Solver"]
  /\ UNCHANGED <<geomVars, reorderVars, paVars, copyVars>>

NextSundials ==
  \/ CallInitOneArgument
  \/ CallInit
  \/ CallSetLinearSolver
  \/ CallStep
  \/ CallDestructor

SpecSundials == InitSundials /\ [][NextSundials]_vars

\* C22: in a build that has the checks, the check after each SUNDIALS call of
\* Init, SetLinearSolver and Step raises its error exactly when that call
\* reported failure.
C22_ChecksRaiseExactlyOnFailure ==
  (solver.class # "none" /\ solver.debug
     /\ slast.op \in {"Init", "SetLinearSolver", "Step"}) =>
    \A i \in DOMAIN slast.trace :
      slast.trace[i].raised <=> slast.trace[i].failed

VerifyMessages ==
  {"error inconsistent operator and vector size",
   "error inconsistent initial times"}

\* the solver and the SUNDIALS objects are as they were, but the process died
LeftUnchanged ==
  /\ solver' = [solver EXCEPT !.state = "aborted"]
  /\ sunobj' = sunobj

\* C23: Init(f, t, x) with f.Height() != x.Size() or f.GetTime() != t fails
\* verification and leaves the base solver, the N_Vector wrapper and the
\* SUNDIALS memory as they were; Init(f) always fails and initializes nothing.
C23_InitRejectsBeforeChange ==
  [][/\ (slast'.op = "Init"
           /\ (slast'.in.f.height # slast'.in.x.size
                 \/ slast'.in.f.time # slast'.in.t)) =>
          (slast'.raised \in VerifyMessages /\ slast'.trace = <<>>
             /\ LeftUnchanged)
     /\ slast'.op = "Init(f)" =>
          (slast'.raised # "none" /\ slast'.trace = <<>> /\ LeftUnchanged)]_vars

\* an initialized solver is given an operator at another time and refuses
C23_Witness ==
  /\ slast.op = "Init"
  /\ slast.in.f.height = slast.in.x.size
  /\ slast.in.f.time # slast.in.t
  /\ slast.raised = "error inconsistent initial times"
  /\ solver.f = 1
  /\ solver.y.length = 1
  /\ slast.in.x.size = 0

\* C24: Step(x, t, dt) fails verification unless x.Size() is the length the
\* N_Vector holds since the last Init; when it passes, the N_Vector points at
\* x's data and the integrator is asked for t + dt; when it returns, t is the
\* time the integrator reached and dt the last internal step it reported.
C24_StepContract ==
  slast.op = "Step" =>
    /\ slast.raised = "MFEM_VERIFY of Step" <=>
         slast.in.x.size # solver.y.length
    /\ slast.raised # "MFEM_VERIFY of Step" =>
         /\ solver.y.data = slast.in.x.data
         /\ slast.tout = slast.in.t + slast.in.dt
         /\ slast.trace # <<>>
         /\ slast.trace[1].call \in {"CVode", "ARKStepEvolve"}
    /\ (slast.raised = "none" /\ ~slast.trace[1].failed) =>
         slast.t = slast.in.reached
    /\ (slast.raised = "none" /\ ~slast.trace[2].failed) =>
         slast.dt = slast.in.hlast

\* a second step on another vector of the same size, stopping short of the
\* target
C24_Witness ==
  /\ slast.op = "Step"
  /\ slast.raised = "none"
  /\ ~slast.trace[1].failed
  /\ ~slast.trace[2].failed
  /\ solver.y.length = 1
  /\ solver.y.data = 24
  /\ slast.in.t = 1
  /\ slast.in.dt = 2
  /\ slast.t = 2
  /\ slast.dt = 1

\* C25: ARKStepSolver::SetLinearSolver on an explicit solver fails the
\* implicit-method verification; no linear solver is freed, nothing is created
\* or attached, and the solver is as it was.
C25_ExplicitRefusesLinearSolver ==
  [][(slast'.op = "SetLinearSolver" /\ solver.class = "ARKStep"
        /\ ~solver.use_implicit) =>
       /\ slast'.raised =
            "The function is applicable only to implicit time integration."
       /\ slast'.trace = <<>>
       /\ LeftUnchanged]_vars

\* an explicit solver that Init has set up refuses
C25_Witness ==
  /\ slast.op = "SetLinearSolver"
  /\ solver.class = "ARKStep"
  /\ ~solver.use_implicit
  /\ solver.sundials_mem # 0
  /\ solver.state = "aborted"

\* C26: no SUNDIALS object is freed twice; while the solver lives, every
\* object not yet freed is the one LSA, A or integrator memory it holds; once
\* it is destroyed every object has been freed exactly once.
C26_AtMostOneOfEach ==
  solver.class # "none" =>
    /\ \A h \in DOMAIN sunobj : sunobj[h].frees <= 1
    /\ solver.state # "destroyed" =>
         \A h \in DOMAIN sunobj :
           sunobj[h].frees = 0 =>
             h \in {solver.sundials_mem, solver.LSA, solver.A}
    /\ solver.state = "destroyed" =>
         \A h \in DOMAIN sunobj : sunobj[h].frees = 1

\* C27: SetLinearSolver and Step of an ARKStepSolver hand SUNDIALS only an
\* integrator memory Init has created; the memory Init creates has ODERhs in
\* the implicit slot and the default SPGMR solver attached when the solver is
\* implicit, in the explicit slot with no linear solver otherwise.
C27_MemoryCreatedBeforeUse ==
  solver.class = "ARKStep" =>
    /\ slast.op \in {"SetLinearSolver", "Step"} =>
         \A i \in DOMAIN slast.trace :
           slast.trace[i].usesMem => slast.trace[i].mem # 0
    /\ (slast.op = "Init" /\ slast.raised = "none"
          /\ \A i \in DOMAIN slast.trace : ~slast.trace[i].failed) =>
         LET mem == sunobj[solver.sundials_mem]
         IN IF solver.use_implicit
            THEN /\ mem.slot = "implicit"
                 /\ mem.ls = solver.LSA
                 /\ sunobj[solver.LSA].slot = "SPGMR"
            ELSE /\ mem.slot = "explicit"
                 /\ mem.ls = 0
                 /\ solver.LSA = 0

\* C28: when Init(f, t, x) has filled the N_Vector, its length is x.Size()
\* and its data x's data; in parallel its global length is the sum of the
\* local sizes of all ranks.
C28_NVectorFilled ==
  (solver.class # "none" /\ slast.op = "Init"
     /\ slast.raised \notin VerifyMessages) =>
    /\ solver.y.length = slast.in.x.size
    /\ solver.y.data = slast.in.x.data
    /\ solver.parallel =>
         solver.y.global_length = slast.in.f.height + slast.in.others

\* ------------------------------------------------ memcpy::H2H, H2D, D2H, D2D
MaxBytes == 2

\* the buffers hold one byte more than a call may copy
BufferLength == MaxBytes + 1

\* what the source buffer holds, and the destination before the first call
SourcePatterns ==
  {[i \in 1..BufferLength |-> 1], [i \in 1..BufferLength |-> i % 2]}

DestPatterns ==
  {[i \in 1..BufferLength |-> 0], [i \in 1..BufferLength |-> (i + 1) % 2]}

\* the pointers a caller passes: NULL, or the source or destination buffer
SrcPointers == {0, 1}

DestPointers == {0, 2}

\* std::memcpy, cuMemcpyHtoD, cuMemcpyDtoH, cuMemcpyDtoD, cuMemcpy: the first
\* bytes bytes of dest become those of src
CopyBytes(dest, src, bytes) ==
  [i \in 1..Len(dest) |-> IF i <= bytes THEN src[i] ELSE dest[i]]

\* return dest, the buffers being as the call found them
ReturnsDest(m, dst) ==
  [outcome |-> "returned", dest |-> m.dest, ret |-> dst, pending |-> 0,
   read |-> FALSE]

\* a copy function is reached: through a NULL pointer the behaviour is
\* undefined, the process dies or carries on with nothing copied
CopyCall(m, dst, src, bytes) ==
  IF src = 0 \/ dst = 0
  THEN {[outcome |-> "segv", dest |-> m.dest, ret |-> 0, pending |-> 0,
         read |-> FALSE],
        ReturnsDest(m, dst)}
  ELSE {[outcome |-> "returned", dest |-> CopyBytes(m.dest, m.src, bytes),
         ret |-> dst, pending |-> 0, read |-> TRUE]}

\* cuMemcpyDtoDAsync(dest, src, bytes, s): the copy is queued on the stream
AsyncCopyCall(m, dst, src, bytes) ==
  IF src = 0 \/ dst = 0
  THEN CopyCall(m, dst, src, bytes)
  ELSE {[outcome |-> "returned", dest |-> m.dest, ret |-> dst,
         pending |-> bytes, read |-> FALSE]}

\* assert(src); assert(dest); in a build without NDEBUG
AssertFails(cfg, dst, src) == ~cfg.ndebug /\ (src = 0 \/ dst = 0)

Aborted(m) ==
  {[outcome |-> "assert", dest |-> m.dest, ret |-> 0, pending |-> 0,
    read |-> FALSE]}

EarlyReturnNever(bytes) == FALSE

\* if (bytes==0) return dest;
EarlyReturn(bytes) == bytes = 0

\* memcpy::H2H(dest, src, bytes, async)
H2H(cfg, m, dst, src, bytes, async) ==
  IF EarlyReturn(bytes) THEN {ReturnsDest(m, dst)}
  ELSE IF AssertFails(cfg, dst, src) THEN Aborted(m)
  ELSE CopyCall(m, dst, src, bytes)

\* memcpy::H2D(dest, src, bytes, async)
H2D(cfg, m, dst, src, bytes, async) ==
  IF EarlyReturn(bytes) THEN {ReturnsDest(m, dst)}
  ELSE IF AssertFails(cfg, dst, src) THEN Aborted(m)
  ELSE IF ~cfg.cuda THEN CopyCall(m, dst, src, bytes)
  ELSE IF cfg.nvcc
       THEN IF ~cfg.uvm
            THEN CopyCall(m, dst, src, bytes)
            ELSE CopyCall(m, dst, src, bytes)
       ELSE {ReturnsDest(m, dst)}

\* memcpy::D2H(dest, src, bytes, async)
D2H(cfg, m, dst, src, bytes, async) ==
  IF EarlyReturn(bytes) THEN {ReturnsDest(m, dst)}
  ELSE IF AssertFails(cfg, dst, src) THEN Aborted(m)
  ELSE IF ~cfg.cuda THEN CopyCall(m, dst, src, bytes)
  ELSE IF cfg.nvcc
       THEN IF ~cfg.uvm
            THEN CopyCall(m, dst, src, bytes)
            ELSE CopyCall(m, dst, src, bytes)
       ELSE {ReturnsDest(m, dst)}

\* memcpy::D2D(dest, src, bytes, async)
D2D(cfg, m, dst, src, bytes, async) ==
  IF EarlyReturn(bytes) THEN {ReturnsDest(m, dst)}
  ELSE IF AssertFails(cfg, dst, src) THEN Aborted(m)
  ELSE IF ~cfg.cuda THEN CopyCall(m, dst, src, bytes)
  ELSE IF cfg.nvcc
       THEN IF ~cfg.uvm
            THEN IF ~async
                 THEN CopyCall(m, dst, src, bytes)
                 ELSE AsyncCopyCall(m, dst, src, bytes)
            ELSE CopyCall(m, dst, src, bytes)
       ELSE {ReturnsDest(m, dst)}

CopyFunctions == {"H2H", "H2D", "D2H", "D2D"}

Memcpy(fn, cfg, m, dst, src, bytes, async) ==
  IF fn = "H2H" THEN H2H(cfg, m, dst, src, bytes, async)
  ELSE IF fn = "H2D" THEN H2D(cfg, m, dst, src, bytes, async)
  ELSE IF fn = "D2H" THEN D2H(cfg, m, dst, src, bytes, async)
  ELSE D2D(cfg, m, dst, src, bytes, async)

\* a configuration and a build, and two buffers
InitMemcpy ==
  /\ GeomIdle
  /\ ReorderIdle
  /\ PAIdle
  /\ ODEIdle
  /\ config \in [cuda : BOOLEAN, uvm : BOOLEAN, nvcc : BOOLEAN,
                 ndebug : BOOLEAN]
  /\ membuf \in [src : SourcePatterns, dest : DestPatterns, pending : {0}]
  /\ mlast = [op |-> "none", outcome |-> "returned"]

\* a call of one of the four functions
CallMemcpy(fn) ==
  /\ mlast.outcome = "returned"
  /\ membuf.pending = 0
  /\ \E dst \in DestPointers : \E src \in SrcPointers :
       \E bytes \in 0..MaxBytes : \E async \in BOOLEAN :
         \E r \in Memcpy(fn, config, membuf, dst, src, bytes, async) :
           /\ membuf' = [membuf EXCEPT !.dest = r.dest, !.pending = r.pending]
           /\ mlast' = [op |-> fn, dst |-> dst, src |-> src, bytes |-> bytes,
                        async |-> async, outcome |-> r.outcome,
                        ret |-> r.ret, read |-> r.read, before |-> membuf]
  /\ UNCHANGED config
  /\ UNCHANGED <<geomVars, reorderVars, paVars, odeVars>>

CallH2H == CallMemcpy("H2H")

CallH2D == CallMemcpy("H2D")

CallD2H == CallMemcpy("D2H")

CallD2D == CallMemcpy("D2D")

\* the stream carries out the queued copy
StreamCompletes ==
  /\ membuf.pending > 0
  /\ membuf' = [membuf EXCEPT
                  !.dest = CopyBytes(membuf.dest, membuf.src, membuf.pending),
                  !.pending = 0]
  /\ mlast' = [op |-> "stream", outcome |-> "returned"]
  /\ UNCHANGED config
  /\ UNCHANGED <<geomVars, reorderVars, paVars, odeVars>>

NextMemcpy ==
  \/ CallH2H
  \/ CallH2D
  \/ CallD2H
  \/ CallD2D
  \/ StreamCompletes

SpecMemcpy == InitMemcpy /\ [][NextMemcpy]_vars

IsCall == mlast.op \in CopyFunctions

\* C29: a call with bytes == 0 returns dest with nothing read, nothing
\* written and no assertion, whatever the pointers and the configuration; a
\* call with bytes > 0 and a NULL src or dest fails its assertion with
\* nothing copied, in a build that has assertions.
C29_ZeroBytesNoOpElseNonNull ==
  IsCall =>
    /\ mlast.bytes = 0 =>
         /\ mlast.outcome = "returned"
         /\ mlast.ret = mlast.dst
         /\ ~mlast.read
         /\ membuf = mlast.before
    /\ (mlast.bytes > 0 /\ (mlast.src = 0 \/ mlast.dst = 0)
          /\ ~config.ndebug) =>
         /\ mlast.outcome = "assert"
         /\ ~mlast.read
         /\ membuf = mlast.before

\* a call with no bytes and no pointers under CUDA
C29_Witness ==
  /\ IsCall
  /\ mlast.op = "D2D"
  /\ mlast.bytes = 0
  /\ mlast.src = 0
  /\ mlast.dst = 0
  /\ config.cuda
  /\ mlast.outcome = "returned"

\* C30: after a synchronous call with bytes > 0 and non-null pointers has
\* returned, the first bytes bytes of dest are those of src, the rest of dest
\* and src are unchanged and the return value is dest, in every
\* configuration; an asynchronous call does what the synchronous one does
\* unless it is D2D with CUDA enabled and UVM off.
C30_CopiesInEveryConfiguration ==
  IsCall =>
    /\ (~mlast.async /\ mlast.bytes > 0 /\ mlast.src # 0 /\ mlast.dst # 0
          /\ mlast.outcome = "returned") =>
         /\ \A i \in 1..BufferLength :
              membuf.dest[i] = IF i <= mlast.bytes THEN mlast.before.src[i]
                               ELSE mlast.before.dest[i]
         /\ membuf.src = mlast.before.src
         /\ mlast.ret = mlast.dst
    /\ (mlast.async /\ ~(mlast.op = "D2D" /\ config.cuda /\ ~config.uvm)) =>
         Memcpy(mlast.op, config, mlast.before, mlast.dst, mlast.src,
                mlast.bytes, TRUE)
           = Memcpy(mlast.op, config, mlast.before, mlast.dst, mlast.src,
                    mlast.bytes, FALSE)

====
